---- MODULE Spec2Model ----
(***************************************************************************)
(* The in-memory graph datastore of indradb (lib/src/memory/datastore.rs): *)
(* the seven indices of InternalMemoryDatastore, the query engine          *)
(* (get_vertex_values_by_query / get_edge_values_by_query), the account    *)
(* operations of MemoryDatastore and the operations of MemoryTransaction.  *)
(*                                                                         *)
(* Uuids are naturals ordered by <, 0 being Uuid::default().  Types are    *)
(* naturals ordered by <, 0 being the empty Type("") that only the range   *)
(* scan fabricates.  Option<T> is a sequence: <<>> is None, <<x>> Some(x). *)
(* A BTreeMap is a function whose domain is iterated in key order.         *)
(***************************************************************************)
EXTENDS Integers, Sequences, FiniteSets, TLC

VARIABLES
    vertices,           \* BTreeMap<Uuid, VertexValue>
    edges,              \* BTreeMap<EdgeKey, (Weight, DateTime<Utc>)>
    accounts,           \* HashMap<Uuid, String>
    account_metadata,   \* BTreeMap<(Uuid, String), JsonValue>
    global_metadata,    \* BTreeMap<String, JsonValue>
    vertex_metadata,    \* BTreeMap<(Uuid, String), JsonValue>
    edge_metadata,      \* BTreeMap<(EdgeKey, String), JsonValue>
    default_account,    \* the create_default_account argument of new()
    issued,             \* history: the (id, secret) pairs create_account returned
    removed,            \* history: the account ids delete_account removed
    child_uuids,        \* history: the ids child_uuid has handed out
    last,               \* the call that has just returned: operation, caller,
                        \* argument, result; Idle once the caller dropped it
    sink,               \* GrpcTransactionDuplex.sink: Option<ClientDuplexSender>
    receiver,           \* GrpcTransactionDuplex.receiver: the responses the
                        \* server has emitted and the client has not taken yet
    wire,               \* the requests sent on the stream, not yet served
    transport_up,       \* FALSE once the transport of the stream has failed
    channel,            \* GrpcTransaction.channel: the Mutex (holder, poisoned)
    pc,                 \* each thread's position in its current call
    request_of,         \* each thread's current TransactionRequest
    pending,            \* per transaction: the write operation that has
                        \* resolved under the read lock and has not yet
                        \* taken the write lock, with what it resolved
    calls,              \* history: the number of calls begun on the stream
    emitted,            \* history: the number of responses the server emitted
    log,                \* history: the calls that ended, in order
    readers,            \* RwLock: the transactions that hold a read guard
    writers,            \* RwLock: the transactions that hold the write guard
    waiting,            \* RwLock: the transactions blocked in read() or
                        \* write(), in the order they asked
    at,                 \* each transaction's position in its operation
    op_of               \* each transaction's current operation

store == <<vertices, edges, accounts, account_metadata, global_metadata,
           vertex_metadata, edge_metadata>>

history == <<default_account, issued, removed, child_uuids>>

\* the state of one transaction stream and of the threads that share it
grpc == <<sink, receiver, wire, transport_up, channel, pc, request_of, calls,
          emitted, log>>

\* Arc<RwLock<InternalMemoryDatastore>> and the transactions that share it
rwlock == <<readers, writers, waiting, at, op_of>>

vars == <<vertices, edges, accounts, account_metadata, global_metadata,
          vertex_metadata, edge_metadata, default_account, issued, removed,
          child_uuids, last, sink, receiver, wire, transport_up, channel, pc,
          request_of, pending, calls, emitted, log, readers, writers, waiting,
          at, op_of>>

----------------------------------------------------------------------------
(* Bounds of the model *)

MaxVertices == 2
MaxEdges == 1
MaxQueryEdges == 2
MaxAccounts == 1
MaxType == 2
MaxTime == 1
MaxLimit == 2

VertexIds == 1..MaxVertices
AccountIds == 0..MaxAccounts
Types == 1..MaxType
Times == 0..MaxTime
Limits == 0..MaxLimit
Weights == {-1, 1}
Secrets == {"s1", "s2"}
Names == {"k1", "k2"}
JsonValues == {"a", "b"}

None == <<>>
Some(x) == <<x>>
Opt(S) == {None} \cup {Some(x) : x \in S}

----------------------------------------------------------------------------
(* Model types *)

EmptyType == 0

EdgeKey(outbound_id, t, inbound_id) ==
    [outbound_id |-> outbound_id, t |-> t, inbound_id |-> inbound_id]

EdgeKeys == {EdgeKey(o, t, i) : o \in VertexIds, t \in Types, i \in VertexIds}

\* derived Ord of EdgeKey: lexicographic over (outbound_id, t, inbound_id)
EdgeKeyLess(a, b) ==
    \/ a.outbound_id < b.outbound_id
    \/ a.outbound_id = b.outbound_id /\ a.t < b.t
    \/ a.outbound_id = b.outbound_id /\ a.t = b.t /\ a.inbound_id < b.inbound_id

VertexValue(owner_id, t) == [owner_id |-> owner_id, t |-> t]

Vertex(id, t) == [id |-> id, t |-> t]

Edge(key, weight, update_datetime) ==
    [key |-> key, weight |-> weight, update_datetime |-> update_datetime]

----------------------------------------------------------------------------
(* Maps *)

MapInsert(m, k, v) == [x \in (DOMAIN m) \cup {k} |-> IF x = k THEN v ELSE m[x]]

MapRemove(m, k) == [x \in (DOMAIN m) \ {k} |-> m[x]]

EmptyMap == [x \in {} |-> 0]

\* the keys of a BTreeMap<Uuid, _> in iteration order
RECURSIVE UuidsInOrder(_)
UuidsInOrder(S) ==
    IF S = {} THEN <<>>
    ELSE LET m == CHOOSE x \in S : \A y \in S : x <= y
         IN <<m>> \o UuidsInOrder(S \ {m})

\* the keys of a BTreeMap<EdgeKey, _> in iteration order
RECURSIVE EdgeKeysInOrder(_)
EdgeKeysInOrder(S) ==
    IF S = {} THEN <<>>
    ELSE LET m == CHOOSE x \in S : \A y \in S : x = y \/ EdgeKeyLess(x, y)
         IN <<m>> \o EdgeKeysInOrder(S \ {m})

Take(s, n) == SubSeq(s, 1, IF n < Len(s) THEN n ELSE Len(s))

----------------------------------------------------------------------------
(* Query AST *)

VertexQueryAll(start_id, limit) ==
    [kind |-> "All", start_id |-> start_id, limit |-> limit]

VertexQueryVertices(ids) == [kind |-> "Vertices", ids |-> ids]

VertexQueryPipe(edge_query, converter, limit) ==
    [kind |-> "Pipe", edge_query |-> edge_query, converter |-> converter,
     limit |-> limit]

EdgeQueryEdges(keys) == [kind |-> "Edges", keys |-> keys]

EdgeQueryPipe(vertex_query, converter, type_filter, high_filter, low_filter, limit) ==
    [kind |-> "Pipe", vertex_query |-> vertex_query, converter |-> converter,
     type_filter |-> type_filter, high_filter |-> high_filter,
     low_filter |-> low_filter, limit |-> limit]

Converters == {"Outbound", "Inbound"}

----------------------------------------------------------------------------
(* Query engine: InternalMemoryDatastore *)

\* OutboundWalk without the high_filter check
RECURSIVE OutboundWalk_NoHighFilter(_, _, _, _, _)
OutboundWalk_NoHighFilter(es, id, q, keys, results) ==
    IF keys = <<>> THEN [results |-> results, returned |-> FALSE]
    ELSE LET key == Head(keys)
             update_datetime == es[key].update_datetime
         IN  IF key.outbound_id # id
                THEN [results |-> results, returned |-> FALSE]
             ELSE IF q.type_filter # None /\ key.t # q.type_filter[1]
                THEN [results |-> results, returned |-> FALSE]
             ELSE IF q.low_filter # None /\ update_datetime < q.low_filter[1]
                THEN OutboundWalk_NoHighFilter(es, id, q, Tail(keys), results)
             ELSE LET pushed == Append(results,
                                   Edge(key, es[key].weight, update_datetime))
                  IN  IF Len(pushed) = q.limit
                         THEN [results |-> pushed, returned |-> TRUE]
                         ELSE OutboundWalk_NoHighFilter(es, id, q, Tail(keys),
                                                        pushed)

\* one `for ... in self.edges.range(lower_bound..)` walk of the Outbound arm;
\* returned = TRUE is the `return Ok(results)` taken inside the walk
RECURSIVE OutboundWalk(_, _, _, _, _)
OutboundWalk(es, id, q, keys, results) ==
    IF keys = <<>> THEN [results |-> results, returned |-> FALSE]
    ELSE LET key == Head(keys)
             update_datetime == es[key].update_datetime
         IN  IF key.outbound_id # id
                THEN [results |-> results, returned |-> FALSE]
             ELSE IF q.type_filter # None /\ key.t # q.type_filter[1]
                THEN [results |-> results, returned |-> FALSE]
             ELSE IF q.high_filter # None /\ update_datetime > q.high_filter[1]
                THEN OutboundWalk(es, id, q, Tail(keys), results)
             ELSE IF q.low_filter # None /\ update_datetime < q.low_filter[1]
                THEN OutboundWalk(es, id, q, Tail(keys), results)
             ELSE LET pushed == Append(results,
                                   Edge(key, es[key].weight, update_datetime))
                  IN  IF Len(pushed) = q.limit
                         THEN [results |-> pushed, returned |-> TRUE]
                         ELSE OutboundWalk(es, id, q, Tail(keys), pushed)

\* LowerBound that starts at the empty type whatever the type filter
LowerBound_EmptyTypeOnly(id, type_filter) == EdgeKey(id, EmptyType, 0)

\* the lower bound of the range scan for source vertex id
LowerBound(id, type_filter) ==
    IF type_filter # None THEN EdgeKey(id, type_filter[1], 0)
                          ELSE EdgeKey(id, EmptyType, 0)

\* self.edges.range(lower_bound..)
EdgeRange(es, lower_bound) ==
    SelectSeq(EdgeKeysInOrder(DOMAIN es), LAMBDA k : ~EdgeKeyLess(k, lower_bound))

\* `for (id, _) in vertex_values` of the Outbound arm
RECURSIVE OutboundPipe(_, _, _, _)
OutboundPipe(es, q, vertex_values, results) ==
    IF vertex_values = <<>> THEN results
    ELSE LET id == Head(vertex_values).id
             walk == OutboundWalk(es, id, q,
                         EdgeRange(es, LowerBound(id, q.type_filter)), results)
         IN  IF walk.returned THEN walk.results
             ELSE OutboundPipe(es, q, Tail(vertex_values), walk.results)

\* InboundPipe that applies no type and no timestamp filter
InboundPipe_Unfiltered(es, q, candidate_ids, keys, results) ==
    LET hits == SelectSeq(keys, LAMBDA k : k.inbound_id \in candidate_ids)
    IN  Take([i \in 1..Len(hits) |->
                 Edge(hits[i], es[hits[i]].weight, es[hits[i]].update_datetime)],
             q.limit)

\* `for (key, value) in self.edges.iter()` of the Inbound arm
RECURSIVE InboundPipe(_, _, _, _, _)
InboundPipe(es, q, candidate_ids, keys, results) ==
    IF keys = <<>> THEN results
    ELSE LET key == Head(keys)
             update_datetime == es[key].update_datetime
         IN  IF key.inbound_id \notin candidate_ids
                THEN InboundPipe(es, q, candidate_ids, Tail(keys), results)
             ELSE IF q.type_filter # None /\ key.t # q.type_filter[1]
                THEN InboundPipe(es, q, candidate_ids, Tail(keys), results)
             ELSE IF q.high_filter # None /\ update_datetime > q.high_filter[1]
                THEN InboundPipe(es, q, candidate_ids, Tail(keys), results)
             ELSE IF q.low_filter # None /\ update_datetime < q.low_filter[1]
                THEN InboundPipe(es, q, candidate_ids, Tail(keys), results)
             ELSE LET pushed == Append(results,
                                   Edge(key, es[key].weight, update_datetime))
                  IN  IF Len(pushed) = q.limit THEN pushed
                      ELSE InboundPipe(es, q, candidate_ids, Tail(keys), pushed)

\* `for id in ids { if let Some(value) = self.vertices.get(&id) ... }`
RECURSIVE LookupVertices(_, _)
LookupVertices(vs, ids) ==
    IF ids = <<>> THEN <<>>
    ELSE LET id == Head(ids)
         IN  (IF id \in DOMAIN vs THEN <<[id |-> id, value |-> vs[id]]>> ELSE <<>>)
             \o LookupVertices(vs, Tail(ids))

\* `for key in keys { if let Some(..) = self.edges.get(&key) ... }`
RECURSIVE LookupEdges(_, _)
LookupEdges(es, keys) ==
    IF keys = <<>> THEN <<>>
    ELSE LET key == Head(keys)
         IN  (IF key \in DOMAIN es
                 THEN <<Edge(key, es[key].weight, es[key].update_datetime)>>
                 ELSE <<>>)
             \o LookupEdges(es, Tail(keys))

\* PipeIds that projects every edge, whatever the limit
PipeIds_NoLimit(edge_values, converter, limit) ==
    IF converter = "Outbound"
       THEN [i \in 1..Len(edge_values) |-> edge_values[i].key.outbound_id]
       ELSE [i \in 1..Len(edge_values) |-> edge_values[i].key.inbound_id]

\* `ids` of the Pipe arm: the first limit edges, each projected to one endpoint
PipeIds(edge_values, converter, limit) ==
    LET taken == Take(edge_values, limit)
    IN  IF converter = "Outbound"
           THEN [i \in 1..Len(taken) |-> taken[i].key.outbound_id]
           ELSE [i \in 1..Len(taken) |-> taken[i].key.inbound_id]

\* AllRange with a range that excludes start_id
AllRange_Exclusive(vs, start_id) ==
    IF start_id # None THEN {id \in DOMAIN vs : id > start_id[1]}
                       ELSE DOMAIN vs

\* the keys of self.vertices.range(start_id..), or of self.vertices.iter()
AllRange(vs, start_id) ==
    IF start_id # None THEN {id \in DOMAIN vs : id >= start_id[1]}
                       ELSE DOMAIN vs

RECURSIVE get_vertex_values_by_query(_, _, _)
RECURSIVE get_edge_values_by_query(_, _, _)

get_vertex_values_by_query(vs, es, q) ==
    CASE q.kind = "All" ->
            LookupVertices(vs, Take(UuidsInOrder(AllRange(vs, q.start_id)),
                                    q.limit))
      [] q.kind = "Vertices" -> LookupVertices(vs, q.ids)
      [] q.kind = "Pipe" ->
            LET edge_values == get_edge_values_by_query(vs, es, q.edge_query)
            IN  LookupVertices(vs, PipeIds(edge_values, q.converter, q.limit))

get_edge_values_by_query(vs, es, q) ==
    CASE q.kind = "Edges" -> LookupEdges(es, q.keys)
      [] q.kind = "Pipe" ->
            LET vertex_values == get_vertex_values_by_query(vs, es, q.vertex_query)
            IN  IF q.converter = "Outbound"
                   THEN OutboundPipe(es, q, vertex_values, <<>>)
                   ELSE InboundPipe(es, q,
                            {vertex_values[i].id : i \in 1..Len(vertex_values)},
                            EdgeKeysInOrder(DOMAIN es), <<>>)

----------------------------------------------------------------------------
(* MemoryDatastore::new *)

Call(op, account_id, arg, res, out) ==
    [op |-> op, account_id |-> account_id, arg |-> arg, res |-> res, out |-> out]

\* no call result is held: the caller has dropped the last Result
Idle == Call("idle", 0, <<>>, "Ok", <<>>)

DefaultAccountId == 0
DefaultSecret == ""

new(create_default_account) ==
    /\ vertices = EmptyMap
    /\ edges = EmptyMap
    /\ accounts = IF create_default_account
                     THEN MapInsert(EmptyMap, DefaultAccountId, DefaultSecret)
                     ELSE EmptyMap
    /\ account_metadata = EmptyMap
    /\ global_metadata = EmptyMap
    /\ vertex_metadata = EmptyMap
    /\ edge_metadata = EmptyMap
    /\ default_account = create_default_account
    /\ issued = {}
    /\ removed = {}
    /\ child_uuids = {}
    /\ last = Idle


----------------------------------------------------------------------------
(* MemoryTransaction: vertices and edges.  account_id is self.account_id. *)

\* create_vertex with an id that may collide with a stored vertex
create_vertex_AnyId(account_id, t) ==
    \E id \in VertexIds :
        /\ vertices' = MapInsert(vertices, id, VertexValue(account_id, t))
        /\ child_uuids' = child_uuids \cup {id}
        /\ last' = Call("create_vertex", account_id, t, "Ok", id)
        /\ UNCHANGED <<edges, accounts, account_metadata, global_metadata,
                       vertex_metadata, edge_metadata, default_account, issued,
                       removed>>

\* the id returned by child_uuid(self.account_id): one never handed out before
create_vertex(account_id, t) ==
    \E id \in VertexIds \ child_uuids :
        /\ vertices' = MapInsert(vertices, id, VertexValue(account_id, t))
        /\ child_uuids' = child_uuids \cup {id}
        /\ last' = Call("create_vertex", account_id, t, "Ok", id)
        /\ UNCHANGED <<edges, accounts, account_metadata, global_metadata,
                       vertex_metadata, edge_metadata, default_account, issued,
                       removed>>

\* vertex_values mapped to models::Vertex::new(uuid, value.t)
ToVertices(vertex_values) ==
    [i \in 1..Len(vertex_values) |->
        Vertex(vertex_values[i].id, vertex_values[i].value.t)]

get_vertices(account_id, q) ==
    /\ last' = Call("get_vertices", account_id, q, "Ok",
                    ToVertices(get_vertex_values_by_query(vertices, edges, q)))
    /\ UNCHANGED <<store, history>>

\* RemoveOwned with a `break` at the first vertex another account owns
RECURSIVE RemoveOwned_StopAtOther(_, _, _)
RemoveOwned_StopAtOther(vs, vertex_values, account_id) ==
    IF vertex_values = <<>> THEN vs
    ELSE LET uuid == Head(vertex_values).id
             value == Head(vertex_values).value
         IN  IF value.owner_id # account_id THEN vs
             ELSE RemoveOwned_StopAtOther(MapRemove(vs, uuid),
                                          Tail(vertex_values), account_id)

\* the loop of delete_vertices run under the write lock on the resolved values
RECURSIVE RemoveOwned(_, _, _)
RemoveOwned(vs, vertex_values, account_id) ==
    IF vertex_values = <<>> THEN vs
    ELSE LET uuid == Head(vertex_values).id
             value == Head(vertex_values).value
         IN  RemoveOwned(IF value.owner_id = account_id THEN MapRemove(vs, uuid)
                                                        ELSE vs,
                         Tail(vertex_values), account_id)

\* delete_vertices that also removes the edges incident to a removed vertex
delete_vertices_Cascade(account_id, q) ==
    LET vertex_values == get_vertex_values_by_query(vertices, edges, q)
        vs == RemoveOwned(vertices, vertex_values, account_id)
    IN  /\ vertices' = vs
        /\ edges' = [k \in {k \in DOMAIN edges :
                               /\ k.outbound_id \in DOMAIN vs
                               /\ k.inbound_id \in DOMAIN vs} |-> edges[k]]
        /\ last' = Call("delete_vertices", account_id, q, "Ok", <<>>)
        /\ UNCHANGED <<accounts, account_metadata, global_metadata,
                       vertex_metadata, edge_metadata, history>>

delete_vertices(account_id, q) ==
    LET vertex_values == get_vertex_values_by_query(vertices, edges, q)
    IN  /\ vertices' = RemoveOwned(vertices, vertex_values, account_id)
        /\ last' = Call("delete_vertices", account_id, q, "Ok", <<>>)
        /\ UNCHANGED <<edges, accounts, account_metadata, global_metadata,
                       vertex_metadata, edge_metadata, history>>

\* CreateEdgeCheck with the inbound vertex looked up before the owner
CreateEdgeCheck_InboundFirst(vs, account_id, key) ==
    IF key.outbound_id \in DOMAIN vs
       THEN IF key.inbound_id \notin DOMAIN vs THEN "VertexNotFound"
            ELSE IF vs[key.outbound_id].owner_id # account_id THEN "Unauthorized"
            ELSE "Ok"
       ELSE "VertexNotFound"

\* the checks create_edge makes under the read lock
CreateEdgeCheck(vs, account_id, key) ==
    IF key.outbound_id \in DOMAIN vs
       THEN IF vs[key.outbound_id].owner_id # account_id THEN "Unauthorized"
            ELSE IF key.inbound_id \notin DOMAIN vs THEN "VertexNotFound"
            ELSE "Ok"
       ELSE "VertexNotFound"

\* create_edge that keeps the stored value of a key already present
create_edge_KeepOld(account_id, key, weight, now) ==
    LET res == CreateEdgeCheck(vertices, account_id, key)
    IN  /\ edges' = IF res = "Ok" /\ key \notin DOMAIN edges
                       THEN MapInsert(edges, key,
                                [weight |-> weight, update_datetime |-> now])
                       ELSE edges
        /\ last' = Call("create_edge", account_id,
                        [key |-> key, weight |-> weight, now |-> now], res, <<>>)
        /\ UNCHANGED <<vertices, accounts, account_metadata, global_metadata,
                       vertex_metadata, edge_metadata, history>>

\* now is the value of Utc::now() read by the call
create_edge(account_id, key, weight, now) ==
    LET res == CreateEdgeCheck(vertices, account_id, key)
    IN  /\ edges' = IF res = "Ok"
                       THEN MapInsert(edges, key,
                                [weight |-> weight, update_datetime |-> now])
                       ELSE edges
        /\ last' = Call("create_edge", account_id,
                        [key |-> key, weight |-> weight, now |-> now], res, <<>>)
        /\ UNCHANGED <<vertices, accounts, account_metadata, global_metadata,
                       vertex_metadata, edge_metadata, history>>

get_edges(account_id, q) ==
    /\ last' = Call("get_edges", account_id, q, "Ok",
                    get_edge_values_by_query(vertices, edges, q))
    /\ UNCHANGED <<store, history>>

\* DeletableEdges without the owner check: every resolved edge is deletable
DeletableEdges_AnyOwner(vs, edge_values, account_id, deletable_edges) ==
    [panicked |-> FALSE,
     deletable_edges |-> deletable_edges
         \o [i \in 1..Len(edge_values) |-> edge_values[i].key]]

\* the first loop of delete_edges: panicked = TRUE is the failed `expect`
RECURSIVE DeletableEdges(_, _, _, _)
DeletableEdges(vs, edge_values, account_id, deletable_edges) ==
    IF edge_values = <<>>
       THEN [panicked |-> FALSE, deletable_edges |-> deletable_edges]
    ELSE LET key == Head(edge_values).key
         IN  IF key.outbound_id \notin DOMAIN vs
                THEN [panicked |-> TRUE, deletable_edges |-> deletable_edges]
             ELSE DeletableEdges(vs, Tail(edge_values), account_id,
                      IF vs[key.outbound_id].owner_id = account_id
                         THEN Append(deletable_edges, key)
                         ELSE deletable_edges)

RECURSIVE RemoveEdges(_, _)
RemoveEdges(es, keys) ==
    IF keys = <<>> THEN es
    ELSE RemoveEdges(MapRemove(es, Head(keys)), Tail(keys))

\* delete_edges that removes the edges collected before the failed `expect`
delete_edges_RemoveBeforePanic(account_id, q) ==
    LET edge_values == get_edge_values_by_query(vertices, edges, q)
        d == DeletableEdges(vertices, edge_values, account_id, <<>>)
    IN  /\ edges' = RemoveEdges(edges, d.deletable_edges)
        /\ last' = Call("delete_edges", account_id, q,
                        IF d.panicked THEN "Panic" ELSE "Ok", <<>>)
        /\ UNCHANGED <<vertices, accounts, account_metadata, global_metadata,
                       vertex_metadata, edge_metadata, history>>

delete_edges(account_id, q) ==
    LET edge_values == get_edge_values_by_query(vertices, edges, q)
        d == DeletableEdges(vertices, edge_values, account_id, <<>>)
    IN  /\ edges' = IF d.panicked THEN edges
                                  ELSE RemoveEdges(edges, d.deletable_edges)
        /\ last' = Call("delete_edges", account_id, q,
                        IF d.panicked THEN "Panic" ELSE "Ok", <<>>)
        /\ UNCHANGED <<vertices, accounts, account_metadata, global_metadata,
                       vertex_metadata, edge_metadata, history>>

\* get_edge_count that counts the stored edges the query names
get_edge_count_Distinct(account_id, q) ==
    LET edge_values == get_edge_values_by_query(vertices, edges, q)
    IN  /\ last' = Call("get_edge_count", account_id, q, "Ok",
                        Cardinality({edge_values[i].key :
                                        i \in 1..Len(edge_values)}))
        /\ UNCHANGED <<store, history>>

get_edge_count(account_id, q) ==
    /\ last' = Call("get_edge_count", account_id, q, "Ok",
                    Len(get_edge_values_by_query(vertices, edges, q)))
    /\ UNCHANGED <<store, history>>

commit(account_id) ==
    /\ last' = Call("commit", account_id, <<>>, "Ok", <<>>)
    /\ UNCHANGED <<store, history>>

\* unimplemented!() panics: the call does not return a Result
rollback(account_id) ==
    /\ last' = Call("rollback", account_id, <<>>, "Panic", <<>>)
    /\ UNCHANGED <<store, history>>

----------------------------------------------------------------------------
(* MemoryDatastore: accounts *)

has_account(account_id) ==
    /\ last' = Call("has_account", account_id, <<>>, "Ok",
                    account_id \in DOMAIN accounts)
    /\ UNCHANGED <<store, history>>

\* the id returned by parent_uuid(): random, never the id of an earlier account;
\* the secret returned by generate_random_secret(): any non-empty secret
create_account ==
    \E id \in (1..MaxAccounts) \ {p[1] : p \in issued}, secret \in Secrets :
        /\ accounts' = MapInsert(accounts, id, secret)
        /\ issued' = issued \cup {<<id, secret>>}
        /\ last' = Call("create_account", id, <<>>, "Ok", <<id, secret>>)
        /\ UNCHANGED <<vertices, edges, account_metadata, global_metadata,
                       vertex_metadata, edge_metadata, default_account, removed,
                       child_uuids>>

\* delete_account that reports Ok whether or not the account was stored
delete_account_Idempotent(account_id) ==
    /\ accounts' = IF account_id \in DOMAIN accounts
                      THEN MapRemove(accounts, account_id) ELSE accounts
    /\ removed' = IF account_id \in DOMAIN accounts
                     THEN removed \cup {account_id} ELSE removed
    /\ last' = Call("delete_account", account_id, <<>>, "Ok", <<>>)
    /\ UNCHANGED <<vertices, edges, account_metadata, global_metadata,
                   vertex_metadata, edge_metadata, default_account, issued,
                   child_uuids>>

delete_account(account_id) ==
    /\ accounts' = IF account_id \in DOMAIN accounts
                      THEN MapRemove(accounts, account_id) ELSE accounts
    /\ removed' = IF account_id \in DOMAIN accounts
                     THEN removed \cup {account_id} ELSE removed
    /\ last' = Call("delete_account", account_id, <<>>,
                    IF account_id \in DOMAIN accounts THEN "Ok"
                                                      ELSE "AccountNotFound",
                    <<>>)
    /\ UNCHANGED <<vertices, edges, account_metadata, global_metadata,
                   vertex_metadata, edge_metadata, default_account, issued,
                   child_uuids>>

\* AuthResult that only looks the account up
AuthResult_IdOnly(accs, account_id, secret) == account_id \in DOMAIN accs

\* fetched_secret == Some(&secret)
AuthResult(accs, account_id, secret) ==
    account_id \in DOMAIN accs /\ accs[account_id] = secret

auth(account_id, secret) ==
    /\ last' = Call("auth", account_id, secret, "Ok",
                    AuthResult(accounts, account_id, secret))
    /\ UNCHANGED <<store, history>>

transaction(account_id) ==
    /\ last' = Call("transaction", account_id, <<>>, "Ok", account_id)
    /\ UNCHANGED <<store, history>>

----------------------------------------------------------------------------
(* MemoryTransaction: global and account metadata *)

\* map.get(&key): Ok(value.clone()) or Err(MetadataNotFound)
MetadataGet(m, key) ==
    IF key \in DOMAIN m THEN [res |-> "Ok", out |-> Some(m[key])]
                        ELSE [res |-> "MetadataNotFound", out |-> None]

\* the Result of map.remove(&key)
MetadataRemoved(m, key) ==
    IF key \in DOMAIN m THEN "Ok" ELSE "MetadataNotFound"

get_global_metadata(account_id, name) ==
    /\ last' = Call("get_global_metadata", account_id, name,
                    MetadataGet(global_metadata, name).res,
                    MetadataGet(global_metadata, name).out)
    /\ UNCHANGED <<store, history>>

set_global_metadata(account_id, name, value) ==
    /\ global_metadata' = MapInsert(global_metadata, name, value)
    /\ last' = Call("set_global_metadata", account_id,
                    [name |-> name, value |-> value], "Ok", <<>>)
    /\ UNCHANGED <<vertices, edges, accounts, account_metadata,
                   vertex_metadata, edge_metadata, history>>

delete_global_metadata(account_id, name) ==
    /\ global_metadata' = MapRemove(global_metadata, name)
    /\ last' = Call("delete_global_metadata", account_id, name,
                    MetadataRemoved(global_metadata, name), <<>>)
    /\ UNCHANGED <<vertices, edges, accounts, account_metadata,
                   vertex_metadata, edge_metadata, history>>

\* get_account_metadata that fails for an owner that is not in accounts
get_account_metadata_CheckOwner(account_id, owner_id, name) ==
    /\ last' = Call("get_account_metadata", account_id,
                    [owner_id |-> owner_id, name |-> name],
                    IF owner_id \in DOMAIN accounts
                       THEN MetadataGet(account_metadata, <<owner_id, name>>).res
                       ELSE "AccountNotFound",
                    IF owner_id \in DOMAIN accounts
                       THEN MetadataGet(account_metadata, <<owner_id, name>>).out
                       ELSE None)
    /\ UNCHANGED <<store, history>>

get_account_metadata(account_id, owner_id, name) ==
    /\ last' = Call("get_account_metadata", account_id,
                    [owner_id |-> owner_id, name |-> name],
                    MetadataGet(account_metadata, <<owner_id, name>>).res,
                    MetadataGet(account_metadata, <<owner_id, name>>).out)
    /\ UNCHANGED <<store, history>>

\* set_account_metadata that files the value under the caller's account
set_account_metadata_Caller(account_id, owner_id, name, value) ==
    /\ account_metadata' =
          IF owner_id \in DOMAIN accounts
             THEN MapInsert(account_metadata, <<account_id, name>>, value)
             ELSE account_metadata
    /\ last' = Call("set_account_metadata", account_id,
                    [owner_id |-> owner_id, name |-> name, value |-> value],
                    IF owner_id \in DOMAIN accounts THEN "Ok"
                                                    ELSE "AccountNotFound",
                    <<>>)
    /\ UNCHANGED <<vertices, edges, accounts, global_metadata,
                   vertex_metadata, edge_metadata, history>>

set_account_metadata(account_id, owner_id, name, value) ==
    /\ account_metadata' =
          IF owner_id \in DOMAIN accounts
             THEN MapInsert(account_metadata, <<owner_id, name>>, value)
             ELSE account_metadata
    /\ last' = Call("set_account_metadata", account_id,
                    [owner_id |-> owner_id, name |-> name, value |-> value],
                    IF owner_id \in DOMAIN accounts THEN "Ok"
                                                    ELSE "AccountNotFound",
                    <<>>)
    /\ UNCHANGED <<vertices, edges, accounts, global_metadata,
                   vertex_metadata, edge_metadata, history>>

delete_account_metadata(account_id, owner_id, name) ==
    /\ account_metadata' = MapRemove(account_metadata, <<owner_id, name>>)
    /\ last' = Call("delete_account_metadata", account_id,
                    [owner_id |-> owner_id, name |-> name],
                    MetadataRemoved(account_metadata, <<owner_id, name>>), <<>>)
    /\ UNCHANGED <<vertices, edges, accounts, global_metadata,
                   vertex_metadata, edge_metadata, history>>

----------------------------------------------------------------------------
(* MemoryTransaction: vertex and edge metadata.  keys is the sequence of   *)
(* ids (or EdgeKeys) of the values the query resolved.                     *)

\* the ids of the resolved vertex values, in order
VertexIdsOf(vertex_values) ==
    [i \in 1..Len(vertex_values) |-> vertex_values[i].id]

\* the keys of the resolved edge values, in order
EdgeKeysOf(edge_values) ==
    [i \in 1..Len(edge_values) |-> edge_values[i].key]

\* the loop of get_*_metadata: result.insert(key, value) for each resolved key
\* that has metadata under name (a HashMap: a key resolved twice is kept once)
RECURSIVE MetadataCollect(_, _, _, _)
MetadataCollect(m, keys, name, result) ==
    IF keys = <<>> THEN result
    ELSE LET key == Head(keys)
         IN  MetadataCollect(m, Tail(keys), name,
                 IF <<key, name>> \in DOMAIN m
                    THEN MapInsert(result, key, m[<<key, name>>])
                    ELSE result)

\* MetadataInsertAll that stops after the first resolved key
MetadataInsertAll_FirstOnly(m, keys, name, value) ==
    IF keys = <<>> THEN m
    ELSE MapInsert(m, <<Head(keys), name>>, value)

\* the loop of set_*_metadata under the write lock
RECURSIVE MetadataInsertAll(_, _, _, _)
MetadataInsertAll(m, keys, name, value) ==
    IF keys = <<>> THEN m
    ELSE MetadataInsertAll(MapInsert(m, <<Head(keys), name>>, value),
                           Tail(keys), name, value)

\* the loop of delete_*_metadata under the write lock
RECURSIVE MetadataRemoveAll(_, _, _)
MetadataRemoveAll(m, keys, name) ==
    IF keys = <<>> THEN m
    ELSE MetadataRemoveAll(MapRemove(m, <<Head(keys), name>>), Tail(keys), name)

get_vertex_metadata(account_id, q, name) ==
    LET vertex_values == get_vertex_values_by_query(vertices, edges, q)
    IN  /\ last' = Call("get_vertex_metadata", account_id,
                        [q |-> q, name |-> name], "Ok",
                        MetadataCollect(vertex_metadata,
                            VertexIdsOf(vertex_values), name, EmptyMap))
        /\ UNCHANGED <<store, history>>

set_vertex_metadata(account_id, q, name, value) ==
    LET vertex_values == get_vertex_values_by_query(vertices, edges, q)
    IN  /\ vertex_metadata' = MetadataInsertAll(vertex_metadata,
                                  VertexIdsOf(vertex_values), name, value)
        /\ last' = Call("set_vertex_metadata", account_id,
                        [q |-> q, name |-> name, value |-> value], "Ok", <<>>)
        /\ UNCHANGED <<vertices, edges, accounts, account_metadata,
                       global_metadata, edge_metadata, history>>

delete_vertex_metadata(account_id, q, name) ==
    LET vertex_values == get_vertex_values_by_query(vertices, edges, q)
    IN  /\ vertex_metadata' = MetadataRemoveAll(vertex_metadata,
                                  VertexIdsOf(vertex_values), name)
        /\ last' = Call("delete_vertex_metadata", account_id,
                        [q |-> q, name |-> name], "Ok", <<>>)
        /\ UNCHANGED <<vertices, edges, accounts, account_metadata,
                       global_metadata, edge_metadata, history>>

get_edge_metadata(account_id, q, name) ==
    LET edge_values == get_edge_values_by_query(vertices, edges, q)
    IN  /\ last' = Call("get_edge_metadata", account_id,
                        [q |-> q, name |-> name], "Ok",
                        MetadataCollect(edge_metadata,
                            EdgeKeysOf(edge_values), name, EmptyMap))
        /\ UNCHANGED <<store, history>>

set_edge_metadata(account_id, q, name, value) ==
    LET edge_values == get_edge_values_by_query(vertices, edges, q)
    IN  /\ edge_metadata' = MetadataInsertAll(edge_metadata,
                                EdgeKeysOf(edge_values), name, value)
        /\ last' = Call("set_edge_metadata", account_id,
                        [q |-> q, name |-> name, value |-> value], "Ok", <<>>)
        /\ UNCHANGED <<vertices, edges, accounts, account_metadata,
                       global_metadata, vertex_metadata, history>>

delete_edge_metadata(account_id, q, name) ==
    LET edge_values == get_edge_values_by_query(vertices, edges, q)
    IN  /\ edge_metadata' = MetadataRemoveAll(edge_metadata,
                                EdgeKeysOf(edge_values), name)
        /\ last' = Call("delete_edge_metadata", account_id,
                        [q |-> q, name |-> name], "Ok", <<>>)
        /\ UNCHANGED <<vertices, edges, accounts, account_metadata,
                       global_metadata, vertex_metadata, history>>

----------------------------------------------------------------------------
(* MemoryTransaction under concurrency: the write operations that resolve  *)
(* first.  The _read step is the block that holds the read lock, the       *)
(* _write step the rest of the function, which holds the write lock; the   *)
(* RwLock makes each step atomic.  pending[account_id] carries the locals  *)
(* of the transaction bound to account_id from one step to the other.      *)

\* create_edge, lines 290-305: the checks under the read lock
create_edge_read(account_id, key, weight) ==
    LET res == CreateEdgeCheck(vertices, account_id, key)
    IN  /\ pending[account_id] = None
        /\ IF res = "Ok"
              THEN /\ pending' = [pending EXCEPT ![account_id] =
                          Some([op |-> "create_edge", key |-> key,
                                weight |-> weight])]
                   /\ UNCHANGED last
              ELSE /\ last' = Call("create_edge", account_id,
                                   [key |-> key, weight |-> weight, now |-> None],
                                   res, <<>>)
                   /\ UNCHANGED pending
        /\ UNCHANGED <<store, history, grpc, rwlock>>

\* create_edge_write that checks the two vertices again under the write lock
create_edge_write_Recheck(account_id, now) ==
    /\ pending[account_id] # None
    /\ pending[account_id][1].op = "create_edge"
    /\ LET key == pending[account_id][1].key
           weight == pending[account_id][1].weight
           res == CreateEdgeCheck(vertices, account_id, key)
       IN  /\ edges' = IF res = "Ok"
                          THEN MapInsert(edges, key,
                                   [weight |-> weight, update_datetime |-> now])
                          ELSE edges
           /\ last' = Call("create_edge", account_id,
                           [key |-> key, weight |-> weight, now |-> now],
                           res, <<>>)
    /\ pending' = [pending EXCEPT ![account_id] = None]
    /\ UNCHANGED <<vertices, accounts, account_metadata, global_metadata,
                   vertex_metadata, edge_metadata, history, grpc, rwlock>>

\* create_edge, lines 307-309: the insert under the write lock
create_edge_write(account_id, now) ==
    /\ pending[account_id] # None
    /\ pending[account_id][1].op = "create_edge"
    /\ LET key == pending[account_id][1].key
           weight == pending[account_id][1].weight
       IN  /\ edges' = MapInsert(edges, key,
                           [weight |-> weight, update_datetime |-> now])
           /\ last' = Call("create_edge", account_id,
                           [key |-> key, weight |-> weight, now |-> now],
                           "Ok", <<>>)
    /\ pending' = [pending EXCEPT ![account_id] = None]
    /\ UNCHANGED <<vertices, accounts, account_metadata, global_metadata,
                   vertex_metadata, edge_metadata, history, grpc, rwlock>>

\* delete_vertices, lines 273-276: the resolution under the read lock
delete_vertices_read(account_id, q) ==
    /\ pending[account_id] = None
    /\ pending' = [pending EXCEPT ![account_id] =
            Some([op |-> "delete_vertices", q |-> q,
                  vertex_values |-> get_vertex_values_by_query(vertices, edges, q)])]
    /\ UNCHANGED <<store, history, grpc, rwlock, last>>

\* delete_vertices, lines 278-286: the removal under the write lock
delete_vertices_write(account_id) ==
    /\ pending[account_id] # None
    /\ pending[account_id][1].op = "delete_vertices"
    /\ vertices' = RemoveOwned(vertices, pending[account_id][1].vertex_values,
                               account_id)
    /\ last' = Call("delete_vertices", account_id, pending[account_id][1].q,
                    "Ok", <<>>)
    /\ pending' = [pending EXCEPT ![account_id] = None]
    /\ UNCHANGED <<edges, accounts, account_metadata, global_metadata,
                   vertex_metadata, edge_metadata, history, grpc, rwlock>>

\* delete_edges, lines 323-337: resolution and owner checks under the read lock
delete_edges_read(account_id, q) ==
    LET edge_values == get_edge_values_by_query(vertices, edges, q)
        d == DeletableEdges(vertices, edge_values, account_id, <<>>)
    IN  /\ pending[account_id] = None
        /\ IF d.panicked
              THEN /\ last' = Call("delete_edges", account_id, q, "Panic", <<>>)
                   /\ UNCHANGED pending
              ELSE /\ pending' = [pending EXCEPT ![account_id] =
                          Some([op |-> "delete_edges", q |-> q,
                                deletable_edges |-> d.deletable_edges])]
                   /\ UNCHANGED last
        /\ UNCHANGED <<store, history, grpc, rwlock>>

\* delete_edges, lines 339-345: the removal under the write lock
delete_edges_write(account_id) ==
    /\ pending[account_id] # None
    /\ pending[account_id][1].op = "delete_edges"
    /\ edges' = RemoveEdges(edges, pending[account_id][1].deletable_edges)
    /\ last' = Call("delete_edges", account_id, pending[account_id][1].q,
                    "Ok", <<>>)
    /\ pending' = [pending EXCEPT ![account_id] = None]
    /\ UNCHANGED <<vertices, accounts, account_metadata, global_metadata,
                   vertex_metadata, edge_metadata, history, grpc, rwlock>>

\* set_vertex_metadata, lines 445-448: the resolution under the read lock
set_vertex_metadata_read(account_id, q, name, value) ==
    /\ pending[account_id] = None
    /\ pending' = [pending EXCEPT ![account_id] =
            Some([op |-> "set_vertex_metadata", q |-> q, name |-> name, value |-> value,
                  keys |-> VertexIdsOf(get_vertex_values_by_query(vertices, edges, q))])]
    /\ UNCHANGED <<store, history, grpc, rwlock, last>>

\* set_vertex_metadata, lines 450-456: the loop under the write lock
set_vertex_metadata_write(account_id) ==
    /\ pending[account_id] # None
    /\ pending[account_id][1].op = "set_vertex_metadata"
    /\ LET p == pending[account_id][1]
       IN  /\ vertex_metadata' = MetadataInsertAll(vertex_metadata, p.keys, p.name, p.value)
           /\ last' = Call("set_vertex_metadata", account_id,
                           [q |-> p.q, name |-> p.name, value |-> p.value], "Ok", <<>>)
    /\ pending' = [pending EXCEPT ![account_id] = None]
    /\ UNCHANGED <<vertices, edges, accounts, account_metadata,
                   global_metadata, edge_metadata, history, grpc, rwlock>>

\* delete_vertex_metadata, lines 460-463: the resolution under the read lock
delete_vertex_metadata_read(account_id, q, name) ==
    /\ pending[account_id] = None
    /\ pending' = [pending EXCEPT ![account_id] =
            Some([op |-> "delete_vertex_metadata", q |-> q, name |-> name,
                  keys |-> VertexIdsOf(get_vertex_values_by_query(vertices, edges, q))])]
    /\ UNCHANGED <<store, history, grpc, rwlock, last>>

\* delete_vertex_metadata, lines 465-471: the loop under the write lock
delete_vertex_metadata_write(account_id) ==
    /\ pending[account_id] # None
    /\ pending[account_id][1].op = "delete_vertex_metadata"
    /\ LET p == pending[account_id][1]
       IN  /\ vertex_metadata' = MetadataRemoveAll(vertex_metadata, p.keys, p.name)
           /\ last' = Call("delete_vertex_metadata", account_id,
                           [q |-> p.q, name |-> p.name], "Ok", <<>>)
    /\ pending' = [pending EXCEPT ![account_id] = None]
    /\ UNCHANGED <<vertices, edges, accounts, account_metadata,
                   global_metadata, edge_metadata, history, grpc, rwlock>>

\* set_edge_metadata, lines 495-498: the resolution under the read lock
set_edge_metadata_read(account_id, q, name, value) ==
    /\ pending[account_id] = None
    /\ pending' = [pending EXCEPT ![account_id] =
            Some([op |-> "set_edge_metadata", q |-> q, name |-> name, value |-> value,
                  keys |-> EdgeKeysOf(get_edge_values_by_query(vertices, edges, q))])]
    /\ UNCHANGED <<store, history, grpc, rwlock, last>>

\* set_edge_metadata, lines 500-506: the loop under the write lock
set_edge_metadata_write(account_id) ==
    /\ pending[account_id] # None
    /\ pending[account_id][1].op = "set_edge_metadata"
    /\ LET p == pending[account_id][1]
       IN  /\ edge_metadata' = MetadataInsertAll(edge_metadata, p.keys, p.name, p.value)
           /\ last' = Call("set_edge_metadata", account_id,
                           [q |-> p.q, name |-> p.name, value |-> p.value], "Ok", <<>>)
    /\ pending' = [pending EXCEPT ![account_id] = None]
    /\ UNCHANGED <<vertices, edges, accounts, account_metadata,
                   global_metadata, vertex_metadata, history, grpc, rwlock>>

\* delete_edge_metadata, lines 510-513: the resolution under the read lock
delete_edge_metadata_read(account_id, q, name) ==
    /\ pending[account_id] = None
    /\ pending' = [pending EXCEPT ![account_id] =
            Some([op |-> "delete_edge_metadata", q |-> q, name |-> name,
                  keys |-> EdgeKeysOf(get_edge_values_by_query(vertices, edges, q))])]
    /\ UNCHANGED <<store, history, grpc, rwlock, last>>

\* delete_edge_metadata, lines 515-521: the loop under the write lock
delete_edge_metadata_write(account_id) ==
    /\ pending[account_id] # None
    /\ pending[account_id][1].op = "delete_edge_metadata"
    /\ LET p == pending[account_id][1]
       IN  /\ edge_metadata' = MetadataRemoveAll(edge_metadata, p.keys, p.name)
           /\ last' = Call("delete_edge_metadata", account_id,
                           [q |-> p.q, name |-> p.name], "Ok", <<>>)
    /\ pending' = [pending EXCEPT ![account_id] = None]
    /\ UNCHANGED <<vertices, edges, accounts, account_metadata,
                   global_metadata, vertex_metadata, history, grpc, rwlock>>

----------------------------------------------------------------------------
(* The client *)

\* the caller drops the returned Result before it makes its next call
Return ==
    /\ last # Idle
    /\ last' = Idle
    /\ UNCHANGED <<store, history, grpc, rwlock, pending>>

----------------------------------------------------------------------------
(* The RPC client of bin/src/server/tests.rs: one transaction stream       *)
(* (GrpcTransactionDuplex) behind the Mutex of a GrpcTransaction that      *)
(* MaxThreads threads share.  The server end of the stream answers the     *)
(* requests one by one, in the order it receives them.                     *)

MaxThreads == 2
MaxCalls == 3

Threads == 1..MaxThreads

NoThread == 0

\* a TransactionRequest: id is the number of the call that sends it (the
\* protocol itself carries no request id); fails tells whether the operation
\* fails on the server
TransactionRequest(id, fails) == [id |-> id, fails |-> fails]

\* a TransactionResponse: n is its position on the stream, to the request it
\* answers, error whether the error variant is populated
TransactionResponse(n, to, error) == [n |-> n, to |-> to, error |-> error]

\* an ended call: res is "Ok", "Err" (the call returned a Result) or "Panic"
Ended(thread, request, res, response) ==
    [thread |-> thread, request |-> request, res |-> res, response |-> response]

\* GrpcTransactionDuplex::new and GrpcTransaction::new
GrpcInit ==
    /\ sink = Some("sender")
    /\ receiver = <<>>
    /\ wire = <<>>
    /\ transport_up = TRUE
    /\ channel = [holder |-> NoThread, poisoned |-> FALSE]
    /\ pc = [t \in Threads |-> "idle"]
    /\ request_of = [t \in Threads |-> None]
    /\ calls = 0
    /\ emitted = 0
    /\ log = <<>>

\* the MutexGuard is dropped: by the end of the statement, or by the unwinding
\* of a panic, which poisons the Mutex
Unlock(t, panicking) ==
    IF channel.holder = t
       THEN [holder |-> NoThread, poisoned |-> channel.poisoned \/ panicking]
       ELSE channel

\* a thread begins an operation: it builds the request and calls
\* self.channel.lock().unwrap(), which panics on a poisoned Mutex
lock(t, fails) ==
    /\ pc[t] = "idle"
    /\ calls < MaxCalls
    /\ channel.holder = NoThread
    /\ calls' = calls + 1
    /\ IF channel.poisoned
          THEN /\ pc' = [pc EXCEPT ![t] = "dead"]
               /\ log' = Append(log, Ended(t, TransactionRequest(calls + 1, fails),
                                           "Panic", None))
               /\ UNCHANGED <<channel, request_of>>
          ELSE /\ channel' = [channel EXCEPT !.holder = t]
               /\ pc' = [pc EXCEPT ![t] = "take"]
               /\ request_of' = [request_of EXCEPT
                                    ![t] = Some(TransactionRequest(calls + 1, fails))]
               /\ UNCHANGED log
    /\ UNCHANGED <<sink, receiver, wire, transport_up, emitted>>

\* the call of thread t ends in a panic that unwinds through the MutexGuard
Panics(t) ==
    /\ pc' = [pc EXCEPT ![t] = "dead"]
    /\ log' = Append(log, Ended(t, request_of[t][1], "Panic", None))
    /\ request_of' = [request_of EXCEPT ![t] = None]
    /\ channel' = Unlock(t, TRUE)

\* request, line 106: self.sink.take().unwrap()
request_take(t) ==
    /\ pc[t] = "take"
    /\ IF sink = None
          THEN Panics(t) /\ UNCHANGED sink
          ELSE /\ sink' = None
               /\ pc' = [pc EXCEPT ![t] = "send"]
               /\ UNCHANGED <<channel, request_of, log>>
    /\ UNCHANGED <<receiver, wire, transport_up, calls, emitted>>

\* request_send that drops the MutexGuard once the request is sent
request_send_Unlock(t) ==
    /\ pc[t] = "send"
    /\ IF transport_up
          THEN /\ wire' = Append(wire, request_of[t][1])
               /\ sink' = Some("sender")
               /\ pc' = [pc EXCEPT ![t] = "receive"]
               /\ channel' = Unlock(t, FALSE)
               /\ UNCHANGED <<request_of, log>>
          ELSE Panics(t) /\ UNCHANGED <<wire, sink>>
    /\ UNCHANGED <<receiver, transport_up, calls, emitted>>

\* request, line 107: self.sink = Some(sink.send(..).wait().unwrap()); a send
\* that fails panics and leaves self.sink empty
request_send(t) ==
    /\ pc[t] = "send"
    /\ IF transport_up
          THEN /\ wire' = Append(wire, request_of[t][1])
               /\ sink' = Some("sender")
               /\ pc' = [pc EXCEPT ![t] = "receive"]
               /\ UNCHANGED <<channel, request_of, log>>
          ELSE Panics(t) /\ UNCHANGED <<wire, sink>>
    /\ UNCHANGED <<receiver, transport_up, calls, emitted>>

\* request_receive that returns Ok(response) whatever the response carries
request_receive_AlwaysOk(t) ==
    /\ pc[t] = "receive"
    /\ IF receiver # <<>>
          THEN /\ receiver' = Tail(receiver)
               /\ log' = Append(log, Ended(t, request_of[t][1], "Ok",
                                           Some(Head(receiver))))
               /\ pc' = [pc EXCEPT ![t] = "idle"]
               /\ request_of' = [request_of EXCEPT ![t] = None]
               /\ channel' = Unlock(t, FALSE)
          ELSE /\ ~transport_up
               /\ Panics(t)
               /\ UNCHANGED receiver
    /\ UNCHANGED <<sink, wire, transport_up, calls, emitted>>

\* request, lines 108-114: self.receiver.next().unwrap().unwrap() waits for the
\* next response and panics when the stream has ended or failed; the call
\* returns Err for the error variant and Ok(response) otherwise, and the
\* MutexGuard of the calling statement is dropped
request_receive(t) ==
    /\ pc[t] = "receive"
    /\ IF receiver # <<>>
          THEN /\ receiver' = Tail(receiver)
               /\ log' = Append(log, Ended(t, request_of[t][1],
                                           IF Head(receiver).error THEN "Err"
                                                                   ELSE "Ok",
                                           Some(Head(receiver))))
               /\ pc' = [pc EXCEPT ![t] = "idle"]
               /\ request_of' = [request_of EXCEPT ![t] = None]
               /\ channel' = Unlock(t, FALSE)
          ELSE /\ ~transport_up
               /\ Panics(t)
               /\ UNCHANGED receiver
    /\ UNCHANGED <<sink, wire, transport_up, calls, emitted>>

\* the server end of the stream: one response per request, in order, with the
\* error variant when the operation failed
serve ==
    /\ transport_up
    /\ wire # <<>>
    /\ wire' = Tail(wire)
    /\ receiver' = Append(receiver,
                       TransactionResponse(emitted + 1, Head(wire).id,
                                           Head(wire).fails))
    /\ emitted' = emitted + 1
    /\ UNCHANGED <<sink, transport_up, channel, pc, request_of, calls, log>>

\* the transport of the stream fails: channel closed or send failure
transport_fails ==
    /\ transport_up
    /\ transport_up' = FALSE
    /\ UNCHANGED <<sink, receiver, wire, channel, pc, request_of, calls,
                   emitted, log>>

----------------------------------------------------------------------------
(* The lock of the datastore.  Every operation reaches the indices through *)
(* self.datastore.read() or self.datastore.write(); the guard is dropped   *)
(* at the end of the statement or block that took it, also when the block  *)
(* is left by `return Err(..)` or by a panic.  The transactions are the    *)
(* threads 1..MaxThreads, each bound to the one datastore.  The lock       *)
(* serves the blocked transactions in the order they asked.                *)

\* the operations of MemoryDatastore and MemoryTransaction
Operations ==
    {"has_account", "create_account", "delete_account", "auth", "transaction",
     "create_vertex", "get_vertices", "delete_vertices", "create_edge",
     "get_edges", "delete_edges", "get_edge_count", "get_global_metadata",
     "set_global_metadata", "delete_global_metadata", "get_account_metadata",
     "set_account_metadata", "delete_account_metadata", "get_vertex_metadata",
     "set_vertex_metadata", "delete_vertex_metadata", "get_edge_metadata",
     "set_edge_metadata", "delete_edge_metadata", "commit", "rollback"}

\* the guards an operation takes, in order: none, read(), write(), or a
\* read() block followed by write()
LockPlan(op) ==
    CASE op \in {"transaction", "commit", "rollback"} -> "none"
      [] op \in {"has_account", "auth", "get_vertices", "get_edges",
                 "get_edge_count", "get_global_metadata",
                 "get_account_metadata", "get_vertex_metadata",
                 "get_edge_metadata"} -> "read"
      [] op \in {"create_account", "delete_account", "create_vertex",
                 "set_global_metadata", "delete_global_metadata",
                 "set_account_metadata", "delete_account_metadata"} -> "write"
      [] op \in {"delete_vertices", "create_edge", "delete_edges",
                 "set_vertex_metadata", "delete_vertex_metadata",
                 "set_edge_metadata", "delete_edge_metadata"} -> "read_write"

\* the operations whose read block can be left without reaching write():
\* create_edge by `return Err(..)`, delete_edges by the panic of `expect`
ReadBlockExits == {"create_edge", "delete_edges"}

RwLockInit ==
    /\ readers = {}
    /\ writers = {}
    /\ waiting = <<>>
    /\ at = [t \in Threads |-> "idle"]
    /\ op_of = [t \in Threads |-> "none"]

\* a transaction starts an operation and reaches its first read() or write()
call(t, op) ==
    /\ at[t] = "idle"
    /\ op_of' = [op_of EXCEPT ![t] = op]
    /\ at' = [at EXCEPT ![t] =
                 CASE LockPlan(op) = "none" -> "unlocked"
                   [] LockPlan(op) = "write" -> "write_wait"
                   [] OTHER -> "read_wait"]
    /\ waiting' = IF LockPlan(op) = "none" THEN waiting ELSE Append(waiting, t)
    /\ UNCHANGED <<readers, writers>>

\* an operation that takes no guard returns (rollback: panics)
unlocked_return(t) ==
    /\ at[t] = "unlocked"
    /\ at' = [at EXCEPT ![t] = "idle"]
    /\ op_of' = [op_of EXCEPT ![t] = "none"]
    /\ UNCHANGED <<readers, writers, waiting>>

\* read() returns the guard: no writer holds the lock
read_granted(t) ==
    /\ at[t] = "read_wait"
    /\ waiting # <<>>
    /\ Head(waiting) = t
    /\ writers = {}
    /\ readers' = readers \cup {t}
    /\ waiting' = Tail(waiting)
    /\ at' = [at EXCEPT ![t] = "read_held"]
    /\ UNCHANGED <<writers, op_of>>

\* write() returns the guard: nobody holds the lock
write_granted(t) ==
    /\ at[t] = "write_wait"
    /\ waiting # <<>>
    /\ Head(waiting) = t
    /\ writers = {}
    /\ readers = {}
    /\ writers' = writers \cup {t}
    /\ waiting' = Tail(waiting)
    /\ at' = [at EXCEPT ![t] = "write_held"]
    /\ UNCHANGED <<readers, op_of>>

\* a read operation returns and drops its guard
read_return(t) ==
    /\ at[t] = "read_held"
    /\ LockPlan(op_of[t]) = "read"
    /\ readers' = readers \ {t}
    /\ at' = [at EXCEPT ![t] = "idle"]
    /\ op_of' = [op_of EXCEPT ![t] = "none"]
    /\ UNCHANGED <<writers, waiting>>

\* read_block_end that keeps the read guard alive until the operation returns
read_block_end_KeepGuard(t) ==
    /\ at[t] = "read_held"
    /\ LockPlan(op_of[t]) = "read_write"
    /\ at' = [at EXCEPT ![t] = "between"]
    /\ UNCHANGED <<readers, writers, waiting, op_of>>

\* the read block of a write operation ends: its guard is dropped
read_block_end(t) ==
    /\ at[t] = "read_held"
    /\ LockPlan(op_of[t]) = "read_write"
    /\ readers' = readers \ {t}
    /\ at' = [at EXCEPT ![t] = "between"]
    /\ UNCHANGED <<writers, waiting, op_of>>

\* the read block is left by `return Err(..)` or by a panic: the guard is
\* dropped and the operation is over
read_block_exit(t) ==
    /\ at[t] = "read_held"
    /\ op_of[t] \in ReadBlockExits
    /\ readers' = readers \ {t}
    /\ at' = [at EXCEPT ![t] = "idle"]
    /\ op_of' = [op_of EXCEPT ![t] = "none"]
    /\ UNCHANGED <<writers, waiting>>

\* the write operation reaches its write()
write_request(t) ==
    /\ at[t] = "between"
    /\ at' = [at EXCEPT ![t] = "write_wait"]
    /\ waiting' = Append(waiting, t)
    /\ UNCHANGED <<readers, writers, op_of>>

\* the operation returns and drops its write guard
write_return(t) ==
    /\ at[t] = "write_held"
    /\ writers' = writers \ {t}
    /\ at' = [at EXCEPT ![t] = "idle"]
    /\ op_of' = [op_of EXCEPT ![t] = "none"]
    /\ UNCHANGED <<readers, waiting>>

\* the embedded datastore and the client of one transaction stream
Init ==
    /\ \E create_default_account \in BOOLEAN : new(create_default_account)
    /\ GrpcInit
    /\ pending = [a \in AccountIds |-> None]
    /\ RwLockInit

----------------------------------------------------------------------------
(* Arguments of the calls *)

IdLists == {<<>>} \cup {<<v>> : v \in VertexIds}
           \cup {<<v, w>> : v \in VertexIds, w \in VertexIds}

KeyList1 == {<<>>} \cup {<<k>> : k \in EdgeKeys}

KeyLists == KeyList1 \cup {<<k, l>> : k \in EdgeKeys, l \in EdgeKeys}

StartIds == Opt(0..MaxVertices)

VQAll == {VertexQueryAll(s, l) : s \in StartIds, l \in Limits}

VQVertices == {VertexQueryVertices(ids) : ids \in IdLists}

VQPipe(EQ) == {VertexQueryPipe(eq, c, l) : eq \in EQ, c \in Converters, l \in Limits}

EQEdges(KL) == {EdgeQueryEdges(keys) : keys \in KL}

EQPipe(VQ, TF, HF, LF) ==
    {EdgeQueryPipe(vq, c, tf, hf, lf, l) :
        vq \in VQ, c \in Converters, tf \in TF, hf \in HF, lf \in LF, l \in Limits}

\* the transactions of the model are bound to these account ids
Callers == AccountIds

\* the queries given to delete_vertices
DeleteVQ == VQAll \cup VQVertices
            \cup {VertexQueryPipe(eq, c, MaxLimit) :
                    eq \in EQEdges(KeyList1), c \in Converters}

\* the queries given to delete_edges
DeleteEQ == EQEdges(KeyList1)
            \cup EQPipe({VertexQueryVertices(<<v>>) : v \in VertexIds},
                        Opt(Types), {None}, {None})

\* the queries given to the read operations
ReadVQ == {VertexQueryAll(None, MaxLimit)}
          \cup {VertexQueryVertices(<<v>>) : v \in VertexIds}

ReadEQ == {EdgeQueryEdges(<<k>>) : k \in EdgeKeys}
          \cup EQPipe({VertexQueryAll(None, MaxLimit)}, {None}, {None}, {None})

\* a call is made when the caller holds no result
Ready == last = Idle

\* a call on the embedded datastore: it does not involve the transaction stream
Embedded == Ready /\ UNCHANGED <<grpc, rwlock, pending>>

\* the model keeps at most cap edges: a call that inserts a new key needs room
EdgeRoom(account_id, key, cap) ==
    \/ CreateEdgeCheck(vertices, account_id, key) # "Ok"
    \/ key \in DOMAIN edges
    \/ Cardinality(DOMAIN edges) < cap

----------------------------------------------------------------------------
(* Spec: any sequence of vertex and edge calls, by any callers, with any   *)
(* types, weights and clock readings.                                      *)

Next ==
    \/ Embedded /\ \E a \in Callers, t \in Types : create_vertex(a, t)
    \/ Embedded /\ \E a \in Callers, q \in ReadVQ : get_vertices(a, q)
    \/ Embedded /\ \E a \in Callers, q \in DeleteVQ : delete_vertices(a, q)
    \/ Embedded /\ \E a \in Callers, k \in EdgeKeys, w \in Weights, now \in Times :
                    EdgeRoom(a, k, MaxEdges) /\ create_edge(a, k, w, now)
    \/ Embedded /\ \E a \in Callers, q \in ReadEQ : get_edges(a, q)
    \/ Embedded /\ \E a \in Callers, q \in DeleteEQ : delete_edges(a, q)
    \/ Embedded /\ \E a \in Callers, q \in ReadEQ : get_edge_count(a, q)
    \/ Embedded /\ \E a \in Callers : commit(a)
    \/ Embedded /\ \E a \in Callers : rollback(a)
    \/ Return

Spec == Init /\ [][Next]_vars

----------------------------------------------------------------------------
(* SpecAccounts: any sequence of account calls and of global and account   *)
(* metadata calls.                                                         *)

AuthSecrets == Secrets \cup {DefaultSecret}

NextAccounts ==
    \/ Embedded /\ \E id \in AccountIds : has_account(id)
    \/ Embedded /\ create_account
    \/ Embedded /\ \E id \in AccountIds : delete_account(id)
    \/ Embedded /\ \E id \in AccountIds, secret \in AuthSecrets : auth(id, secret)
    \/ Embedded /\ \E id \in AccountIds : transaction(id)
    \/ Embedded /\ \E a \in Callers, n \in Names : get_global_metadata(a, n)
    \/ Embedded /\ \E a \in Callers, n \in Names, v \in JsonValues :
                    set_global_metadata(a, n, v)
    \/ Embedded /\ \E a \in Callers, n \in Names : delete_global_metadata(a, n)
    \/ Embedded /\ \E a \in Callers, o \in AccountIds, n \in Names :
                    get_account_metadata(a, o, n)
    \/ Embedded /\ \E a \in Callers, o \in AccountIds, n \in Names, v \in JsonValues :
                    set_account_metadata(a, o, n, v)
    \/ Embedded /\ \E a \in Callers, o \in AccountIds, n \in Names :
                    delete_account_metadata(a, o, n)
    \/ Return

SpecAccounts == Init /\ [][NextAccounts]_vars

----------------------------------------------------------------------------
(* SpecQuery: the stores the query engine runs on, with up to              *)
(* MaxQueryEdges edges.  The engine reads no owner, no vertex type and no  *)
(* weight, so one caller builds the store with one vertex type and one     *)
(* weight; ids, edge types and timestamps vary.                            *)

QueryReadVQ ==
    ReadVQ \cup VQAll
    \cup VQPipe({EdgeQueryPipe(VertexQueryAll(None, MaxLimit), "Outbound",
                               None, None, None, MaxLimit)})

QueryReadEQ == {EdgeQueryEdges(<<k>>) : k \in EdgeKeys}
               \cup EQPipe({VertexQueryAll(None, MaxLimit)},
                           Opt(Types), Opt(Times), {None})

NextQuery ==
    \/ Embedded /\ create_vertex(DefaultAccountId, 1)
    \/ Embedded /\ \E q \in QueryReadVQ : get_vertices(DefaultAccountId, q)
    \/ Embedded /\ \E v \in VertexIds :
                    delete_vertices(DefaultAccountId, VertexQueryVertices(<<v>>))
    \/ Embedded /\ \E k \in EdgeKeys, now \in Times :
                    /\ EdgeRoom(DefaultAccountId, k, MaxQueryEdges)
                    /\ create_edge(DefaultAccountId, k, 1, now)
    \/ Embedded /\ \E q \in QueryReadEQ : get_edges(DefaultAccountId, q)
    \/ Embedded /\ \E k \in EdgeKeys :
                    delete_edges(DefaultAccountId, EdgeQueryEdges(<<k>>))
    \/ Embedded /\ \E q \in QueryReadEQ : get_edge_count(DefaultAccountId, q)
    \/ Return

SpecQuery == Init /\ [][NextQuery]_vars

----------------------------------------------------------------------------
(* SpecMetadata: vertex and edge metadata calls on stores that one caller  *)
(* builds, with one vertex type, one edge type, one weight and one clock   *)
(* reading.  Metadata outlives the vertex or edge it was set on.           *)

MaxMetadata == 2

MetaEdgeKeys == {k \in EdgeKeys : k.t = 1}

\* the vertex queries given to the vertex metadata calls
MetaVQ == {VertexQueryAll(None, l) : l \in 1..MaxLimit}
          \cup VQVertices
          \cup {VertexQueryPipe(EdgeQueryEdges(<<k>>), "Inbound", MaxLimit) :
                  k \in MetaEdgeKeys}

\* the edge queries given to the edge metadata calls
MetaEQ == {EdgeQueryEdges(keys) :
              keys \in {<<>>} \cup {<<k>> : k \in MetaEdgeKeys}
                       \cup {<<k, k>> : k \in MetaEdgeKeys}}
          \cup {EdgeQueryPipe(VertexQueryVertices(<<v>>), c, None, None, None, l) :
                  v \in VertexIds, c \in Converters, l \in Limits}

\* the model keeps at most MaxMetadata vertex and edge metadata entries
MetadataRoom ==
    Cardinality(DOMAIN vertex_metadata') + Cardinality(DOMAIN edge_metadata')
        <= MaxMetadata

NextMetadata ==
    \/ Embedded /\ create_vertex(DefaultAccountId, 1)
    \/ Embedded /\ \E v \in VertexIds :
                    delete_vertices(DefaultAccountId, VertexQueryVertices(<<v>>))
    \/ Embedded /\ \E k \in MetaEdgeKeys :
                    /\ EdgeRoom(DefaultAccountId, k, MaxEdges)
                    /\ create_edge(DefaultAccountId, k, 1, 0)
    \/ Embedded /\ \E k \in MetaEdgeKeys :
                    delete_edges(DefaultAccountId, EdgeQueryEdges(<<k>>))
    \/ Embedded /\ \E q \in MetaVQ, n \in Names :
                    get_vertex_metadata(DefaultAccountId, q, n)
    \/ Embedded /\ \E q \in MetaVQ, n \in Names, v \in JsonValues :
                    set_vertex_metadata(DefaultAccountId, q, n, v) /\ MetadataRoom
    \/ Embedded /\ \E q \in MetaVQ, n \in Names :
                    delete_vertex_metadata(DefaultAccountId, q, n)
    \/ Embedded /\ \E q \in MetaEQ, n \in Names :
                    get_edge_metadata(DefaultAccountId, q, n)
    \/ Embedded /\ \E q \in MetaEQ, n \in Names, v \in JsonValues :
                    set_edge_metadata(DefaultAccountId, q, n, v) /\ MetadataRoom
    \/ Embedded /\ \E q \in MetaEQ, n \in Names :
                    delete_edge_metadata(DefaultAccountId, q, n)
    \/ Return

SpecMetadata == Init /\ [][NextMetadata]_vars

----------------------------------------------------------------------------
(* SpecGrpc: MaxThreads threads make up to MaxCalls calls on one shared    *)
(* GrpcTransaction; the transport can fail at any moment.                  *)

NextGrpc ==
    \/ \E t \in Threads, fails \in BOOLEAN :
          lock(t, fails) /\ UNCHANGED <<store, history, last, pending, rwlock>>
    \/ \E t \in Threads : request_take(t) /\ UNCHANGED <<store, history, last, pending, rwlock>>
    \/ \E t \in Threads : request_send(t) /\ UNCHANGED <<store, history, last, pending, rwlock>>
    \/ \E t \in Threads : request_receive(t) /\ UNCHANGED <<store, history, last, pending, rwlock>>
    \/ serve /\ UNCHANGED <<store, history, last, pending, rwlock>>
    \/ transport_fails /\ UNCHANGED <<store, history, last, pending, rwlock>>

SpecGrpc == Init /\ [][NextGrpc]_vars

----------------------------------------------------------------------------
(* SpecConcurrent: one transaction per account, each on its own thread.    *)
(* The steps of the transactions interleave at the lock boundaries.  One   *)
(* vertex type, one edge type, one weight, one metadata name and value.    *)

\* the edges of the concurrent transactions join two different vertices
ConcurrentKeys == {k \in MetaEdgeKeys : k.outbound_id # k.inbound_id}

ConcurrentVQ == {VertexQueryVertices(<<v>>) : v \in VertexIds}

ConcurrentEQ == {EdgeQueryEdges(<<k>>) : k \in ConcurrentKeys}

\* the transaction bound to account_id is between two calls
Between(account_id) == Ready /\ pending[account_id] = None

NextConcurrent ==
    \/ \E a \in Callers : /\ Between(a)
                          /\ create_vertex(a, 1)
                          /\ UNCHANGED <<grpc, rwlock, pending>>
    \/ \E a \in Callers, k \in ConcurrentKeys :
          Ready /\ EdgeRoom(a, k, MaxEdges) /\ create_edge_read(a, k, 1)
    \/ \E a \in Callers : Ready /\ create_edge_write(a, 0)
    \/ \E a \in Callers, q \in ConcurrentVQ : Ready /\ delete_vertices_read(a, q)
    \/ \E a \in Callers : Ready /\ delete_vertices_write(a)
    \/ \E a \in Callers, q \in ConcurrentEQ : Ready /\ delete_edges_read(a, q)
    \/ \E a \in Callers : Ready /\ delete_edges_write(a)
    \/ \E a \in Callers, q \in ConcurrentVQ :
          Ready /\ set_vertex_metadata_read(a, q, "k1", "a")
    \/ \E a \in Callers : Ready /\ set_vertex_metadata_write(a) /\ MetadataRoom
    \/ \E a \in Callers, q \in ConcurrentVQ :
          Ready /\ delete_vertex_metadata_read(a, q, "k1")
    \/ \E a \in Callers : Ready /\ delete_vertex_metadata_write(a)
    \/ \E a \in Callers, q \in ConcurrentEQ :
          Ready /\ set_edge_metadata_read(a, q, "k1", "a")
    \/ \E a \in Callers : Ready /\ set_edge_metadata_write(a) /\ MetadataRoom
    \/ \E a \in Callers, q \in ConcurrentEQ :
          Ready /\ delete_edge_metadata_read(a, q, "k1")
    \/ \E a \in Callers : Ready /\ delete_edge_metadata_write(a)
    \/ Return

SpecConcurrent == Init /\ [][NextConcurrent]_vars

----------------------------------------------------------------------------
(* SpecDelete: the deletes of two callers on stores with up to             *)
(* MaxQueryEdges edges and with vertex and edge metadata.  One vertex      *)
(* type, one edge type, one weight, one clock reading, one metadata name   *)
(* and value.                                                              *)

\* the edge queries given to delete_edges: Edges with up to two keys, and the
\* pipes over all vertices
DeleteEdgesEQ ==
    EQEdges({<<>>} \cup {<<k>> : k \in MetaEdgeKeys}
            \cup {<<k, l>> : k \in MetaEdgeKeys, l \in MetaEdgeKeys})
    \cup {EdgeQueryPipe(VertexQueryAll(None, MaxLimit), c, None, None, None,
                        MaxLimit) : c \in Converters}

\* the vertex queries given to delete_vertices
DeleteVerticesVQ == VQVertices \cup {VertexQueryAll(None, l) : l \in 1..MaxLimit}

NextDelete ==
    \/ Embedded /\ \E a \in Callers : create_vertex(a, 1)
    \/ Embedded /\ \E a \in Callers, k \in MetaEdgeKeys :
                    /\ EdgeRoom(a, k, MaxQueryEdges)
                    /\ create_edge(a, k, 1, 0)
    \/ Embedded /\ \E v \in VertexIds :
                    /\ set_vertex_metadata(DefaultAccountId,
                                           VertexQueryVertices(<<v>>), "k1", "a")
                    /\ MetadataRoom
    \/ Embedded /\ \E k \in MetaEdgeKeys :
                    /\ set_edge_metadata(DefaultAccountId,
                                         EdgeQueryEdges(<<k>>), "k1", "a")
                    /\ MetadataRoom
    \/ Embedded /\ \E a \in Callers, q \in DeleteVerticesVQ : delete_vertices(a, q)
    \/ Embedded /\ \E a \in Callers, q \in DeleteEdgesEQ : delete_edges(a, q)
    \/ Return

SpecDelete == Init /\ [][NextDelete]_vars

----------------------------------------------------------------------------
(* SpecAccountGraph: accounts are created and deleted while transactions   *)
(* bound to them keep working on vertices, edges and account metadata.     *)
(* One vertex type, one edge type, one weight, one clock reading, one      *)
(* metadata name and value; each caller sets and reads its own metadata.   *)

NextAccountGraph ==
    \/ Embedded /\ create_account
    \/ Embedded /\ \E id \in AccountIds : delete_account(id)
    \/ Embedded /\ \E id \in AccountIds : transaction(id)
    \/ Embedded /\ \E a \in Callers : set_account_metadata(a, a, "k1", "a")
    \/ Embedded /\ \E a \in Callers : get_account_metadata(a, a, "k1")
    \/ Embedded /\ \E a \in Callers : create_vertex(a, 1)
    \/ Embedded /\ \E a \in Callers :
                    get_vertices(a, VertexQueryAll(None, MaxLimit))
    \/ Embedded /\ \E a \in Callers, v \in VertexIds :
                    delete_vertices(a, VertexQueryVertices(<<v>>))
    \/ Embedded /\ \E a \in Callers, k \in MetaEdgeKeys :
                    EdgeRoom(a, k, MaxEdges) /\ create_edge(a, k, 1, 0)
    \/ Embedded /\ \E a \in Callers, k \in MetaEdgeKeys :
                    delete_edges(a, EdgeQueryEdges(<<k>>))
    \/ Return

SpecAccountGraph == Init /\ [][NextAccountGraph]_vars

----------------------------------------------------------------------------
(* SpecReads: the eleven read-only operations on stores in which every     *)
(* index is populated.  One vertex type, one edge type, one weight, one    *)
(* clock reading, one metadata name and value; the only removal is         *)
(* delete_vertices, which leaves edges dangling.                           *)

\* the edge queries given to the reads
ReadsEQ == EQEdges({<<k>> : k \in MetaEdgeKeys}
                   \cup {<<k, k>> : k \in MetaEdgeKeys})
           \cup EQPipe({VertexQueryAll(None, MaxLimit)}, {None}, {None}, {None})

NextReads ==
    \/ Embedded /\ create_account
    \/ Embedded /\ set_global_metadata(DefaultAccountId, "k1", "a")
    \/ Embedded /\ \E o \in AccountIds :
                    set_account_metadata(DefaultAccountId, o, "k1", "a")
    \/ Embedded /\ \E a \in Callers : create_vertex(a, 1)
    \/ Embedded /\ \E v \in VertexIds :
                    delete_vertices(DefaultAccountId, VertexQueryVertices(<<v>>))
    \/ Embedded /\ \E a \in Callers, k \in MetaEdgeKeys :
                    EdgeRoom(a, k, MaxEdges) /\ create_edge(a, k, 1, 0)
    \/ Embedded /\ \E v \in VertexIds :
                    /\ set_vertex_metadata(DefaultAccountId,
                                           VertexQueryVertices(<<v>>), "k1", "a")
                    /\ MetadataRoom
    \/ Embedded /\ \E k \in MetaEdgeKeys :
                    /\ set_edge_metadata(DefaultAccountId,
                                         EdgeQueryEdges(<<k>>), "k1", "a")
                    /\ MetadataRoom
    \/ Embedded /\ \E id \in AccountIds : has_account(id)
    \/ Embedded /\ \E id \in AccountIds, secret \in AuthSecrets : auth(id, secret)
    \/ Embedded /\ \E id \in AccountIds : transaction(id)
    \/ Embedded /\ \E q \in ReadVQ : get_vertices(DefaultAccountId, q)
    \/ Embedded /\ \E q \in ReadsEQ : get_edges(DefaultAccountId, q)
    \/ Embedded /\ \E q \in ReadsEQ : get_edge_count(DefaultAccountId, q)
    \/ Embedded /\ get_global_metadata(DefaultAccountId, "k1")
    \/ Embedded /\ \E o \in AccountIds :
                    get_account_metadata(DefaultAccountId, o, "k1")
    \/ Embedded /\ \E q \in ReadVQ :
                    get_vertex_metadata(DefaultAccountId, q, "k1")
    \/ Embedded /\ \E q \in ReadsEQ :
                    get_edge_metadata(DefaultAccountId, q, "k1")
    \/ Embedded /\ \E a \in Callers : commit(a)
    \/ Return

SpecReads == Init /\ [][NextReads]_vars

----------------------------------------------------------------------------
(* SpecLocks: the transactions take and drop the guards of the lock.       *)
(* SpecLocksFair adds that a transaction that can take its next step       *)
(* eventually takes it, the lock's grants included; starting an operation  *)
(* is left to the caller.                                                  *)

NextLocks ==
    \/ \E t \in Threads, op \in Operations :
          call(t, op) /\ UNCHANGED <<store, history, last, grpc, pending>>
    \/ \E t \in Threads :
          unlocked_return(t) /\ UNCHANGED <<store, history, last, grpc, pending>>
    \/ \E t \in Threads :
          read_granted(t) /\ UNCHANGED <<store, history, last, grpc, pending>>
    \/ \E t \in Threads :
          write_granted(t) /\ UNCHANGED <<store, history, last, grpc, pending>>
    \/ \E t \in Threads :
          read_return(t) /\ UNCHANGED <<store, history, last, grpc, pending>>
    \/ \E t \in Threads :
          read_block_end(t) /\ UNCHANGED <<store, history, last, grpc, pending>>
    \/ \E t \in Threads :
          read_block_exit(t) /\ UNCHANGED <<store, history, last, grpc, pending>>
    \/ \E t \in Threads :
          write_request(t) /\ UNCHANGED <<store, history, last, grpc, pending>>
    \/ \E t \in Threads :
          write_return(t) /\ UNCHANGED <<store, history, last, grpc, pending>>

SpecLocks == Init /\ [][NextLocks]_vars

\* the steps of transaction t after the start of its operation
Progress(t) ==
    \/ unlocked_return(t)
    \/ read_granted(t)
    \/ write_granted(t)
    \/ read_return(t)
    \/ read_block_end(t)
    \/ write_request(t)
    \/ write_return(t)

SpecLocksFair ==
    /\ Init
    /\ [][NextLocks]_vars
    /\ \A t \in Threads :
          WF_vars(Progress(t) /\ UNCHANGED <<store, history, last, grpc, pending>>)

----------------------------------------------------------------------------
(* Claims *)

\* C1 (I1): in every state reachable by create_vertex, delete_vertices,
\* create_edge and delete_edges calls, every EdgeKey in edges has its
\* outbound_id and its inbound_id in vertices.
C1_EdgeEndpointsExist ==
    \A k \in DOMAIN edges :
        k.outbound_id \in DOMAIN vertices /\ k.inbound_id \in DOMAIN vertices

\* the queries that carry a limit
LimitedVQ == VQAll \cup VQPipe(EQEdges(KeyList1))

LimitedEQ == EQPipe(VQAll \cup VQVertices, Opt(Types), {None}, {None})

\* C2: a query that carries a limit L returns at most L results in every
\* store state (so none when L = 0).
C2_LimitRespected ==
    Ready =>
        /\ \A q \in LimitedVQ :
              Len(get_vertex_values_by_query(vertices, edges, q)) <= q.limit
        /\ \A q \in LimitedEQ :
              Len(get_edge_values_by_query(vertices, edges, q)) <= q.limit

\* get_vertices(q) returns only vertices that account_id does not own
OnlyOthers(vs, es, q, account_id) ==
    LET vertex_values == get_vertex_values_by_query(vs, es, q)
    IN  \A i \in 1..Len(vertex_values) :
            vertex_values[i].value.owner_id # account_id

\* C3 as stated: for every vertex query q, get_vertices(q) right after
\* delete_vertices(q) returns only vertices the caller does not own.
C3_DeleteThenGet ==
    last.op = "delete_vertices"
        => OnlyOthers(vertices, edges, last.arg, last.account_id)

\* the queries whose resolution delete_vertices(q) cannot shift: Vertices, a Pipe
\* over Edges, and an All whose limit covers every vertex from start_id on
C3_Stable(q) ==
    \/ q.kind = "Vertices"
    \/ q.kind = "Pipe" /\ q.edge_query.kind = "Edges"
    \/ /\ q.kind = "All"
       /\ q.limit >= Cardinality({id \in DOMAIN vertices :
                                    q.start_id # None => id >= q.start_id[1]})

\* C3 amended: for q a Vertices query, a Pipe over an Edges query, or an All
\* whose limit is at least the number of stored vertices from start_id on,
\* get_vertices(q) right after delete_vertices(q) returns only vertices the
\* caller does not own.
C3_DeleteThenGetStable ==
    [][(last'.op = "delete_vertices" /\ C3_Stable(last'.arg))
          => OnlyOthers(vertices', edges', last'.arg, last'.account_id)]_vars

\* delete_vertices removed one of two listed vertices and kept the other, which
\* another account owns and which the same query still returns
C3_Witness ==
    /\ last.op = "delete_vertices"
    /\ last.arg.kind = "Vertices"
    /\ Len(last.arg.ids) = 2
    /\ last.arg.ids[1] \in child_uuids \ DOMAIN vertices
    /\ Len(get_vertex_values_by_query(vertices, edges, last.arg)) = 1
    /\ OnlyOthers(vertices, edges, last.arg, last.account_id)

\* C5: create_edge fails with VertexNotFound when the outbound vertex is
\* absent, with Unauthorized when it is owned by another account (whether or
\* not the inbound vertex exists), with VertexNotFound when it is owned by the
\* caller and the inbound vertex is absent; a failing call changes no index.
C5_CreateEdgeErrors ==
    [][last'.op = "create_edge" =>
          LET key == last'.arg.key
              caller == last'.account_id
          IN  /\ key.outbound_id \notin DOMAIN vertices
                    => last'.res = "VertexNotFound"
              /\ (/\ key.outbound_id \in DOMAIN vertices
                  /\ vertices[key.outbound_id].owner_id # caller)
                    => last'.res = "Unauthorized"
              /\ (/\ key.outbound_id \in DOMAIN vertices
                  /\ vertices[key.outbound_id].owner_id = caller
                  /\ key.inbound_id \notin DOMAIN vertices)
                    => last'.res = "VertexNotFound"
              /\ last'.res # "Ok" => UNCHANGED store]_vars

\* create_edge was refused as Unauthorized although the inbound vertex is absent
\* too, in a store that holds an edge
C5_Witness ==
    /\ last.op = "create_edge"
    /\ last.res = "Unauthorized"
    /\ last.arg.key.inbound_id \notin DOMAIN vertices
    /\ DOMAIN edges # {}

\* C6: rollback() returns the NotImplemented error to its caller, an error
\* value and not an abort of the calling thread.
C6_RollbackReturnsError ==
    last.op = "rollback" => last.res = "NotImplemented"

\* C7: after create_vertex(t) returns v in a transaction of account A,
\* get_vertices(Vertices[v]) returns exactly the vertex (v, t), the stored
\* vertex is owned by A, and every earlier vertex is still present with its
\* owner and type.
C7_CreateVertex ==
    [][last'.op = "create_vertex" =>
          LET v == last'.out
              t == last'.arg
          IN  /\ ToVertices(get_vertex_values_by_query(vertices', edges',
                                VertexQueryVertices(<<v>>))) = <<Vertex(v, t)>>
              /\ vertices'[v].owner_id = last'.account_id
              /\ \A u \in DOMAIN vertices :
                    u \in DOMAIN vertices' /\ vertices'[u] = vertices[u]]_vars

\* create_vertex returned the second vertex of a store whose first vertex has
\* another owner and another type
C7_Witness ==
    /\ last.op = "create_vertex"
    /\ \E u \in DOMAIN vertices :
          /\ u # last.out
          /\ vertices[u].owner_id # last.account_id
          /\ vertices[u].t # last.arg

\* C8: after create_edge(k, w) succeeds, get_edges(Edges[k]) returns exactly
\* the edge (k, w, timestamp of the call); when k was already present its
\* weight and timestamp are replaced and edges has as many entries as before.
C8_CreateEdgeUpsert ==
    [][(last'.op = "create_edge" /\ last'.res = "Ok") =>
          LET key == last'.arg.key
          IN  /\ get_edge_values_by_query(vertices', edges',
                                          EdgeQueryEdges(<<key>>))
                   = <<Edge(key, last'.arg.weight, last'.arg.now)>>
              /\ key \in DOMAIN edges
                    => Cardinality(DOMAIN edges') = Cardinality(DOMAIN edges)]_vars

\* create_edge succeeded and the store holds the edge with the call's weight
\* and timestamp
C8_Witness ==
    /\ last.op = "create_edge"
    /\ last.res = "Ok"
    /\ last.arg.key \in DOMAIN edges
    /\ edges[last.arg.key] = [weight |-> last.arg.weight,
                              update_datetime |-> last.arg.now]

\* the Outbound edge pipes: over All, Vertices and Pipe-over-Edges vertex
\* queries, with every type, high and low filter and every limit
PipeInnerVQ ==
    VQAll \cup VQVertices
    \cup {VertexQueryPipe(EdgeQueryEdges(<<k>>), c, MaxLimit) :
            k \in EdgeKeys, c \in Converters}

OutboundPipes ==
    {EdgeQueryPipe(vq, "Outbound", tf, hf, lf, l) :
        vq \in PipeInnerVQ, tf \in Opt(Types), hf \in Opt(Times),
        lf \in Opt(Times), l \in Limits}

\* C9: every edge an Outbound edge pipe returns has the outbound_id of a
\* vertex the inner vertex query resolves, the type of the type_filter when
\* one is set, a timestamp <= high_filter when one is set and a timestamp
\* >= low_filter when one is set.
C9_OutboundPipeSound ==
    Ready =>
        \A q \in OutboundPipes :
            LET edge_values == get_edge_values_by_query(vertices, edges, q)
                vertex_values ==
                    get_vertex_values_by_query(vertices, edges, q.vertex_query)
            IN  \A i \in 1..Len(edge_values) :
                    /\ \E j \in 1..Len(vertex_values) :
                          vertex_values[j].id = edge_values[i].key.outbound_id
                    /\ q.type_filter # None
                          => edge_values[i].key.t = q.type_filter[1]
                    /\ q.high_filter # None
                          => edge_values[i].update_datetime <= q.high_filter[1]
                    /\ q.low_filter # None
                          => edge_values[i].update_datetime >= q.low_filter[1]

\* get_edges returned one edge of a store of two for an Outbound pipe with a
\* type filter and a high filter
C9_Witness ==
    /\ last.op = "get_edges"
    /\ last.arg.kind = "Pipe"
    /\ last.arg.converter = "Outbound"
    /\ last.arg.type_filter # None
    /\ last.arg.high_filter # None
    /\ Len(last.out) = 1
    /\ Cardinality(DOMAIN edges) = 2
    /\ \E k \in DOMAIN edges :
          /\ k.outbound_id = last.out[1].key.outbound_id
          /\ k.t = last.arg.type_filter[1]
          /\ edges[k].update_datetime > last.arg.high_filter[1]

\* C4 as stated: auth(id, s) returns true iff (id, s) was returned by an
\* earlier create_account call.
C4_AuthIffIssued ==
    last.op = "auth" => (last.out <=> <<last.account_id, last.arg>> \in issued)

\* C4 amended: auth(id, s) returns true iff (id, s) was returned by an earlier
\* create_account call, or is the default account (all-zero id, empty secret)
\* of a store built with it, and delete_account has not removed id since.
C4_AuthIffStored ==
    last.op = "auth" =>
        (last.out <=>
            /\ \/ <<last.account_id, last.arg>> \in issued
               \/ /\ default_account
                  /\ last.account_id = DefaultAccountId
                  /\ last.arg = DefaultSecret
            /\ last.account_id \notin removed)

\* auth accepted a pair create_account returned, after the default account was
\* deleted
C4_Witness ==
    /\ last.op = "auth"
    /\ last.out
    /\ <<last.account_id, last.arg>> \in issued
    /\ DefaultAccountId \in removed

\* C10: for global metadata, and for account metadata of an existing account,
\* get(name) after set(name, value) returns value, get(name) after delete(name)
\* fails with MetadataNotFound, and a delete(name) of a name that is not stored
\* (a second delete) fails with MetadataNotFound and changes no index.
C10_MetadataSetGetDelete ==
    [][/\ last'.op = "set_global_metadata" =>
            MetadataGet(global_metadata', last'.arg.name)
               = [res |-> "Ok", out |-> Some(last'.arg.value)]
       /\ last'.op = "delete_global_metadata" =>
            /\ MetadataGet(global_metadata', last'.arg).res = "MetadataNotFound"
            /\ last'.arg \notin DOMAIN global_metadata =>
                  last'.res = "MetadataNotFound" /\ UNCHANGED store
       /\ (/\ last'.op = "set_account_metadata"
           /\ last'.arg.owner_id \in DOMAIN accounts) =>
            /\ last'.res = "Ok"
            /\ MetadataGet(account_metadata',
                           <<last'.arg.owner_id, last'.arg.name>>)
                  = [res |-> "Ok", out |-> Some(last'.arg.value)]
       /\ last'.op = "delete_account_metadata" =>
            LET key == <<last'.arg.owner_id, last'.arg.name>>
            IN  /\ MetadataGet(account_metadata', key).res = "MetadataNotFound"
                /\ key \notin DOMAIN account_metadata =>
                      last'.res = "MetadataNotFound" /\ UNCHANGED store]_vars

\* delete_account_metadata of a name that is not stored was refused, for an
\* account that exists and has another name stored
C10_Witness ==
    /\ last.op = "delete_account_metadata"
    /\ last.res = "MetadataNotFound"
    /\ last.arg.owner_id \in DOMAIN accounts
    /\ \E n \in Names : <<last.arg.owner_id, n>> \in DOMAIN account_metadata
    /\ global_metadata # EmptyMap

\* the set of keys a sequence of resolved keys holds
KeySet(keys) == {keys[i] : i \in 1..Len(keys)}

\* what get_vertex_metadata(q, name) returns in the store (vs, es, vm)
VertexMetadataOf(vs, es, vm, q, name) ==
    MetadataCollect(vm, VertexIdsOf(get_vertex_values_by_query(vs, es, q)),
                    name, EmptyMap)

\* what get_edge_metadata(q, name) returns in the store (vs, es, em)
EdgeMetadataOf(vs, es, em, q, name) ==
    MetadataCollect(em, EdgeKeysOf(get_edge_values_by_query(vs, es, q)),
                    name, EmptyMap)

\* C11: get_vertex_metadata(q, n) right after set_vertex_metadata(q, n, value)
\* returns a mapping whose keys are exactly the vertices q resolves to, each
\* mapped to value; right after delete_vertex_metadata(q, n) it returns the
\* empty mapping; get_vertex_metadata never returns an error.  The same holds
\* for the three edge metadata operations over edge queries.
C11_VertexEdgeMetadata ==
    [][/\ last'.op = "set_vertex_metadata" =>
            LET got == VertexMetadataOf(vertices', edges', vertex_metadata',
                                        last'.arg.q, last'.arg.name)
            IN  /\ DOMAIN got = KeySet(VertexIdsOf(
                      get_vertex_values_by_query(vertices', edges', last'.arg.q)))
                /\ \A id \in DOMAIN got : got[id] = last'.arg.value
       /\ last'.op = "delete_vertex_metadata" =>
            VertexMetadataOf(vertices', edges', vertex_metadata',
                             last'.arg.q, last'.arg.name) = EmptyMap
       /\ last'.op = "set_edge_metadata" =>
            LET got == EdgeMetadataOf(vertices', edges', edge_metadata',
                                      last'.arg.q, last'.arg.name)
            IN  /\ DOMAIN got = KeySet(EdgeKeysOf(
                      get_edge_values_by_query(vertices', edges', last'.arg.q)))
                /\ \A key \in DOMAIN got : got[key] = last'.arg.value
       /\ last'.op = "delete_edge_metadata" =>
            EdgeMetadataOf(vertices', edges', edge_metadata',
                           last'.arg.q, last'.arg.name) = EmptyMap
       /\ last'.op \in {"get_vertex_metadata", "get_edge_metadata"} =>
            last'.res = "Ok"]_vars

\* set_vertex_metadata has set the value on both vertices of the store, which
\* its query resolves
C11_Witness ==
    /\ last.op = "set_vertex_metadata"
    /\ Cardinality(DOMAIN vertices) = 2
    /\ \A id \in DOMAIN vertices :
          /\ <<id, last.arg.name>> \in DOMAIN vertex_metadata
          /\ vertex_metadata[<<id, last.arg.name>>] = last.arg.value
    /\ Len(get_vertex_values_by_query(vertices, edges, last.arg.q)) = 2

\* the vertex id is stored in vs and owned by an account other than account_id
OwnedByOther(vs, id, account_id) ==
    id \in DOMAIN vs /\ vs[id].owner_id # account_id

\* C12: a call made through a transaction of account B leaves every vertex
\* owned by another account in place with its value, and leaves every EdgeKey
\* whose outbound vertex is owned by another account as it was (absent, or
\* present with the same weight and timestamp); create_edge on such a key
\* returns Unauthorized, delete_vertices returns Ok, and delete_edges returns
\* Ok when the outbound vertices of the edges it resolves exist.
C12_OwnershipIsolation ==
    [][last'.op # "idle" =>
          LET B == last'.account_id
          IN  /\ \A v \in DOMAIN vertices :
                    OwnedByOther(vertices, v, B) =>
                        v \in DOMAIN vertices' /\ vertices'[v] = vertices[v]
              /\ \A k \in EdgeKeys :
                    OwnedByOther(vertices, k.outbound_id, B) =>
                        /\ k \in DOMAIN edges <=> k \in DOMAIN edges'
                        /\ k \in DOMAIN edges => edges'[k] = edges[k]
              /\ (/\ last'.op = "create_edge"
                  /\ OwnedByOther(vertices, last'.arg.key.outbound_id, B))
                    => last'.res = "Unauthorized"
              /\ last'.op = "delete_vertices" => last'.res = "Ok"
              /\ (/\ last'.op = "delete_edges"
                  /\ LET edge_values ==
                            get_edge_values_by_query(vertices, edges, last'.arg)
                     IN  \A i \in 1..Len(edge_values) :
                            edge_values[i].key.outbound_id \in DOMAIN vertices)
                    => last'.res = "Ok"]_vars

\* delete_edges returned Ok and kept the edge its query resolves, whose outbound
\* vertex another account owns
C12_Witness ==
    /\ last.op = "delete_edges"
    /\ last.res = "Ok"
    /\ LET edge_values == get_edge_values_by_query(vertices, edges, last.arg)
       IN  /\ Len(edge_values) = 1
           /\ OwnedByOther(vertices, edge_values[1].key.outbound_id,
                           last.account_id)

\* the call that ended as log[i] returned a Result to its caller
Returned(i) == log[i].res \in {"Ok", "Err"}

\* C13: on one transaction stream the n-th call returns the n-th response of
\* the stream; it returns Err exactly when that response carries the error
\* variant; after an Err the sender half is back in self.sink, and the call
\* that follows an Err returns the response to its own request.
C13_PositionalResponses ==
    /\ \A i \in 1..Len(log) :
          Returned(i) =>
              /\ log[i].response[1].n = log[i].request.id
              /\ log[i].res = "Err" <=> log[i].response[1].error
    /\ (/\ log # <<>>
        /\ log[Len(log)].res = "Err"
        /\ \A t \in Threads : pc[t] # "send") => sink # None
    /\ \A i \in 1..(Len(log) - 1) :
          (log[i].res = "Err" /\ Returned(i + 1)) =>
              log[i + 1].response[1].to = log[i + 1].request.id

\* the first call returned Err and the second call, of the same thread,
\* returned Ok
C13_Witness ==
    /\ Len(log) >= 2
    /\ log[1].res = "Err"
    /\ log[2].res = "Ok"
    /\ log[1].thread = log[2].thread
    /\ log[2].response[1].n = 2

\* the threads that are inside request()
InRequest == {t \in Threads : pc[t] \in {"take", "send", "receive"}}

\* C14: a thread is inside request() only while it holds the Mutex, so at most
\* one thread is inside it and at most one request is in flight on the stream,
\* and every call that returns has received the response to its own request.
C14_MutexSerializes ==
    /\ \A t \in InRequest : channel.holder = t
    /\ Cardinality(InRequest) <= 1
    /\ Len(wire) + Len(receiver) <= 1
    /\ \A i \in 1..Len(log) :
          Returned(i) => log[i].response[1].to = log[i].request.id

\* two threads have each had a call answered, and one of them is waiting for
\* the response to its next request while the other is idle
C14_Witness ==
    /\ Len(log) = 2
    /\ Returned(1) /\ Returned(2)
    /\ log[1].thread # log[2].thread
    /\ \E t \in Threads : pc[t] = "receive" /\ wire # <<>>

\* C15: a call that ends without a response, because the transport failed
\* during it or before it, returns a Transport error value to its caller.
C15_TransportErrorReturned ==
    \A i \in 1..Len(log) :
        log[i].response = None => log[i].res = "Transport"

\* the transaction of account a takes its write step for operation op
WriteStep(a, op) ==
    /\ pending[a] # None
    /\ pending[a][1].op = op
    /\ pending'[a] = None

\* C16: a write operation that resolves first is two atomic steps, and its
\* write step acts on what its read step resolved, whatever other
\* transactions have written since: the write step of create_edge inserts
\* the edge and returns Ok, and the write step of delete_vertices removes
\* the caller's vertices among those its read step resolved.  (The state the
\* claim names, an edge inserted after its inbound vertex was deleted, is
\* C16_Witness.)
C16_ResolveThenMutate ==
    [][\A a \in Callers :
          /\ WriteStep(a, "create_edge") =>
                /\ last'.op = "create_edge"
                /\ last'.res = "Ok"
                /\ pending[a][1].key \in DOMAIN edges'
          /\ WriteStep(a, "delete_vertices") =>
                LET vertex_values == pending[a][1].vertex_values
                IN  \A i \in 1..Len(vertex_values) :
                        vertex_values[i].value.owner_id = a
                            => vertex_values[i].id \notin DOMAIN vertices']_vars

\* create_edge has returned Ok and inserted an edge whose inbound vertex is
\* gone: the other transaction deleted it after the existence check
C16_Witness ==
    /\ last.op = "create_edge"
    /\ last.res = "Ok"
    /\ last.arg.key \in DOMAIN edges
    /\ last.arg.key.outbound_id \in DOMAIN vertices
    /\ last.arg.key.inbound_id \in child_uuids \ DOMAIN vertices

\* the edge stored under key passes the type, high and low filters of pipe q
PassesFilters(es, q, key) ==
    /\ q.type_filter # None => key.t = q.type_filter[1]
    /\ q.high_filter # None => es[key].update_datetime <= q.high_filter[1]
    /\ q.low_filter # None => es[key].update_datetime >= q.low_filter[1]

\* the stored edges under the keys, in the order of the keys
EdgesOf(es, keys) ==
    [i \in 1..Len(keys) |->
        Edge(keys[i], es[keys[i]].weight, es[keys[i]].update_datetime)]

\* the reference list of C17: for each resolved vertex in order, its outgoing
\* edges that pass the filters, in ascending EdgeKey order
RECURSIVE OutboundReference(_, _, _)
OutboundReference(es, q, ids) ==
    IF ids = <<>> THEN <<>>
    ELSE EdgesOf(es, EdgeKeysInOrder({k \in DOMAIN es :
                        k.outbound_id = Head(ids) /\ PassesFilters(es, q, k)}))
         \o OutboundReference(es, q, Tail(ids))

\* C17: an Outbound edge pipe with limit >= 1 returns exactly the first limit
\* elements of the reference list: for each vertex the inner query resolves, in
\* its order and once per occurrence, the edges leaving that vertex that pass
\* the type, high and low filters, in ascending EdgeKey order.
C17_OutboundPipeExact ==
    Ready =>
        \A q \in OutboundPipes :
            q.limit >= 1 =>
                get_edge_values_by_query(vertices, edges, q)
                  = Take(OutboundReference(edges, q,
                            VertexIdsOf(get_vertex_values_by_query(
                                            vertices, edges, q.vertex_query))),
                         q.limit)

\* get_edges returned, for an Outbound pipe with a type filter, the edge that
\* follows an edge of the same vertex with a smaller type
C17_Witness ==
    /\ last.op = "get_edges"
    /\ last.arg.kind = "Pipe"
    /\ last.arg.converter = "Outbound"
    /\ last.arg.type_filter # None
    /\ Len(last.out) = 1
    /\ \E k \in DOMAIN edges :
          /\ k.outbound_id = last.out[1].key.outbound_id
          /\ k.t < last.out[1].key.t

\* the Inbound edge pipes: the same inner queries, filters and limits as the
\* Outbound ones
InboundPipes ==
    {EdgeQueryPipe(vq, "Inbound", tf, hf, lf, l) :
        vq \in PipeInnerVQ, tf \in Opt(Types), hf \in Opt(Times),
        lf \in Opt(Times), l \in Limits}

\* C18: an Inbound edge pipe with limit >= 1 returns exactly the first limit
\* edges, in ascending EdgeKey order over the whole edges index, whose
\* inbound_id is among the vertices the inner query resolves and that pass the
\* type, high and low filters: the result depends only on the set of resolved
\* vertices and holds no EdgeKey twice.
C18_InboundPipeExact ==
    Ready =>
        \A q \in InboundPipes :
            q.limit >= 1 =>
                LET edge_values == get_edge_values_by_query(vertices, edges, q)
                    candidate_ids ==
                        KeySet(VertexIdsOf(get_vertex_values_by_query(
                                              vertices, edges, q.vertex_query)))
                IN  /\ edge_values
                         = Take(EdgesOf(edges, EdgeKeysInOrder(
                                   {k \in DOMAIN edges :
                                       /\ k.inbound_id \in candidate_ids
                                       /\ PassesFilters(edges, q, k)})),
                                q.limit)
                    /\ \A i, j \in 1..Len(edge_values) :
                          edge_values[i].key = edge_values[j].key => i = j

\* get_edges returned two edges for an Inbound pipe with a high filter: they
\* enter different vertices and the first has the smaller outbound_id and the
\* larger inbound_id
C18_Witness ==
    /\ last.op = "get_edges"
    /\ last.arg.kind = "Pipe"
    /\ last.arg.converter = "Inbound"
    /\ last.arg.high_filter # None
    /\ Len(last.out) = 2
    /\ last.out[1].key.outbound_id < last.out[2].key.outbound_id
    /\ last.out[1].key.inbound_id > last.out[2].key.inbound_id

\* C19: VertexQuery::All{start_id, limit} returns min(limit, n) vertices, n
\* being the number of stored vertices with id >= start_id (all of them when
\* start_id is absent), in ascending id order, each with its stored value,
\* starting at the smallest such id and skipping none.
C19_AllRangeScan ==
    Ready =>
        \A q \in VQAll :
            LET vertex_values == get_vertex_values_by_query(vertices, edges, q)
                from == {id \in DOMAIN vertices :
                            q.start_id # None => id >= q.start_id[1]}
                n == Cardinality(from)
            IN  /\ Len(vertex_values) = IF q.limit < n THEN q.limit ELSE n
                /\ \A i \in 1..Len(vertex_values) :
                      /\ vertex_values[i].id \in from
                      /\ vertex_values[i].value = vertices[vertex_values[i].id]
                      /\ Cardinality({id \in from : id < vertex_values[i].id})
                            = i - 1

\* get_vertices returned only the vertex at start_id, which is stored, from a
\* store that also holds a vertex with a smaller id
C19_Witness ==
    /\ last.op = "get_vertices"
    /\ last.arg.kind = "All"
    /\ last.arg.start_id # None
    /\ last.arg.limit >= 1
    /\ Len(last.out) = 1
    /\ last.out[1].id = last.arg.start_id[1]
    /\ \E id \in DOMAIN vertices : id < last.arg.start_id[1]

\* the vertex pipes: over Edges queries (with a key listed twice) and over
\* Outbound and Inbound edge pipes, with both converters and every limit
VertexPipes ==
    VQPipe(EQEdges(KeyLists)
           \cup EQPipe({VertexQueryAll(None, MaxLimit)}
                       \cup {VertexQueryVertices(<<v>>) : v \in VertexIds},
                       {None}, {None}, {None}))

\* C20: VertexQuery::Pipe returns, for the first limit edges of the inner edge
\* query in their order, the vertex at the outbound_id (Outbound) or inbound_id
\* (Inbound) of each edge when it is stored, once per edge: an edge whose
\* endpoint is missing contributes nothing and no edge beyond the limit
\* contributes.
C20_VertexPipe ==
    Ready =>
        \A q \in VertexPipes :
            LET edge_values == get_edge_values_by_query(vertices, edges,
                                                        q.edge_query)
                k == IF q.limit < Len(edge_values) THEN q.limit
                                                   ELSE Len(edge_values)
                endpoint(i) == IF q.converter = "Outbound"
                                  THEN edge_values[i].key.outbound_id
                                  ELSE edge_values[i].key.inbound_id
                kept == SelectSeq([i \in 1..k |-> endpoint(i)],
                                  LAMBDA id : id \in DOMAIN vertices)
            IN  get_vertex_values_by_query(vertices, edges, q)
                  = [i \in 1..Len(kept) |->
                        [id |-> kept[i], value |-> vertices[kept[i]]]]

\* get_vertices returned nothing for a vertex pipe with limit 1: the endpoint of
\* the first edge is missing, and the second edge, whose endpoint is stored, is
\* beyond the limit
C20_Witness ==
    /\ last.op = "get_vertices"
    /\ last.arg.kind = "Pipe"
    /\ last.arg.converter = "Inbound"
    /\ last.arg.limit = 1
    /\ last.out = <<>>
    /\ LET edge_values == get_edge_values_by_query(vertices, edges,
                                                   last.arg.edge_query)
       IN  /\ Len(edge_values) = 2
           /\ edge_values[1].key.inbound_id \notin DOMAIN vertices
           /\ edge_values[2].key.inbound_id \in DOMAIN vertices

\* the four metadata indices and accounts
metadata == <<account_metadata, global_metadata, vertex_metadata, edge_metadata>>

\* C21: delete_edges(q) removes exactly the edges q resolves whose outbound
\* vertex the caller owns, and leaves every other edge with its value; when q
\* resolves an edge whose outbound vertex is not in vertices the call panics
\* and removes no edge; in both cases vertices, accounts and the four metadata
\* indices are unchanged.
C21_DeleteEdges ==
    [][last'.op = "delete_edges" =>
          LET keys == EdgeKeysOf(get_edge_values_by_query(vertices, edges,
                                                          last'.arg))
              dangling == \E i \in 1..Len(keys) :
                              keys[i].outbound_id \notin DOMAIN vertices
              owned == {k \in KeySet(keys) :
                           vertices[k.outbound_id].owner_id = last'.account_id}
          IN  /\ dangling => last'.res = "Panic" /\ edges' = edges
              /\ ~dangling =>
                    /\ last'.res = "Ok"
                    /\ DOMAIN edges' = DOMAIN edges \ owned
                    /\ \A k \in DOMAIN edges' : edges'[k] = edges[k]
              /\ UNCHANGED <<vertices, accounts, metadata>>]_vars

\* delete_edges has removed one of the two edges its query lists and kept the
\* other, whose outbound vertex another account owns and which has metadata
C21_Witness ==
    /\ last.op = "delete_edges"
    /\ last.res = "Ok"
    /\ last.arg.kind = "Edges"
    /\ Len(last.arg.keys) = 2
    /\ last.arg.keys[1] \notin DOMAIN edges
    /\ last.arg.keys[2] \in DOMAIN edges
    /\ OwnedByOther(vertices, last.arg.keys[2].outbound_id, last.account_id)
    /\ <<last.arg.keys[2], "k1">> \in DOMAIN edge_metadata
    /\ Len(get_vertex_values_by_query(vertices, edges,
              VertexQueryVertices(<<last.arg.keys[1].outbound_id>>))) = 1

\* C25: delete_vertices(q) removes from vertices exactly the vertices q
\* resolves that the caller owns, leaves the other vertices with their values,
\* returns Ok and changes nothing else: edges (those incident to a removed
\* vertex included), accounts and the four metadata indices are unchanged.
C25_DeleteVertices ==
    [][last'.op = "delete_vertices" =>
          LET vertex_values ==
                  get_vertex_values_by_query(vertices, edges, last'.arg)
              owned == {vertex_values[i].id : i \in
                           {j \in 1..Len(vertex_values) :
                               vertex_values[j].value.owner_id
                                   = last'.account_id}}
          IN  /\ last'.res = "Ok"
              /\ DOMAIN vertices' = DOMAIN vertices \ owned
              /\ \A v \in DOMAIN vertices' : vertices'[v] = vertices[v]
              /\ UNCHANGED <<edges, accounts, metadata>>]_vars

\* delete_vertices has removed a vertex: an edge that leaves it is still in
\* edges, and vertex metadata keyed by the vertex and edge metadata keyed by
\* the edge are still stored
C25_Witness ==
    /\ last.op = "delete_vertices"
    /\ \E k \in DOMAIN edges :
          /\ k.outbound_id \in child_uuids \ DOMAIN vertices
          /\ <<k.outbound_id, "k1">> \in DOMAIN vertex_metadata
          /\ <<k, "k1">> \in DOMAIN edge_metadata
          /\ last.arg.kind = "Vertices"
          /\ last.arg.ids = <<k.outbound_id>>

\* C22: delete_account(id) for an id that is not in accounts (a second
\* delete_account of the same id included) and set_account_metadata(owner,
\* name, value) for an owner that is not in accounts (an owner deleted earlier
\* included) fail with AccountNotFound and leave the seven indices unchanged.
C22_AccountNotFound ==
    [][/\ (last'.op = "delete_account"
           /\ last'.account_id \notin DOMAIN accounts)
             => last'.res = "AccountNotFound" /\ UNCHANGED store
       /\ (last'.op = "set_account_metadata"
           /\ last'.arg.owner_id \notin DOMAIN accounts)
             => last'.res = "AccountNotFound" /\ UNCHANGED store]_vars

\* the second delete_account of an account has returned AccountNotFound
C22_Witness ==
    /\ last.op = "delete_account"
    /\ last.res = "AccountNotFound"
    /\ last.account_id \in removed

\* the vertices of vs that account a owns
OwnedVertices(vs, a) == {v \in DOMAIN vs : vs[v].owner_id = a}

\* C23: delete_account(A) of a stored account removes A's entry from accounts
\* and changes no other index; afterwards, for a deleted account A,
\* get_account_metadata(A, name) returns the value stored under (A, name),
\* get_vertices returns the vertices A owns, and a transaction bound to A still
\* creates vertices, deletes its vertices, and creates and deletes edges that
\* leave its vertices.
C23_DeleteAccountFrame ==
    [][/\ (last'.op = "delete_account" /\ last'.account_id \in DOMAIN accounts)
             => /\ last'.res = "Ok"
                /\ accounts' = MapRemove(accounts, last'.account_id)
                /\ UNCHANGED <<vertices, edges, metadata>>
       /\ (last'.op = "get_account_metadata"
           /\ last'.arg.owner_id \in removed
           /\ <<last'.arg.owner_id, last'.arg.name>> \in DOMAIN account_metadata)
             => /\ last'.res = "Ok"
                /\ last'.out = Some(account_metadata[<<last'.arg.owner_id,
                                                       last'.arg.name>>])
       /\ (last'.op = "get_vertices" /\ last'.arg = VertexQueryAll(None, MaxLimit))
             => \A a \in removed : \A v \in OwnedVertices(vertices, a) :
                   \E i \in 1..Len(last'.out) : last'.out[i].id = v
       /\ (last'.op = "create_vertex" /\ last'.account_id \in removed)
             => /\ last'.res = "Ok"
                /\ last'.out \in OwnedVertices(vertices', last'.account_id)
                                 \ DOMAIN vertices
       /\ (last'.op = "delete_vertices" /\ last'.account_id \in removed)
             => \A v \in KeySet(last'.arg.ids) :
                   v \in OwnedVertices(vertices, last'.account_id)
                      => v \notin DOMAIN vertices'
       /\ (last'.op = "create_edge" /\ last'.account_id \in removed
           /\ last'.arg.key.outbound_id
                 \in OwnedVertices(vertices, last'.account_id)
           /\ last'.arg.key.inbound_id \in DOMAIN vertices)
             => last'.res = "Ok" /\ last'.arg.key \in DOMAIN edges'
       /\ (last'.op = "delete_edges" /\ last'.account_id \in removed)
             => \A k \in KeySet(last'.arg.keys) \cap DOMAIN edges :
                   k.outbound_id \in OwnedVertices(vertices, last'.account_id)
                      => k \notin DOMAIN edges']_vars

\* a transaction bound to a deleted account, whose metadata is still stored,
\* has created an edge
C23_Witness ==
    /\ last.op = "create_edge"
    /\ last.res = "Ok"
    /\ last.account_id \in removed
    /\ <<last.account_id, "k1">> \in DOMAIN account_metadata
    /\ last.arg.key \in DOMAIN edges

\* the operations that only read
ReadOnly == {"has_account", "auth", "transaction", "get_vertices", "get_edges",
             "get_edge_count", "get_global_metadata", "get_account_metadata",
             "get_vertex_metadata", "get_edge_metadata", "commit"}

\* C26: has_account, auth, transaction, get_vertices, get_edges,
\* get_edge_count, get_global_metadata, get_account_metadata,
\* get_vertex_metadata, get_edge_metadata and commit leave the seven indices
\* unchanged, and get_edge_count(q) returns the length of what get_edges(q)
\* returns in the same state.
C26_ReadsChangeNothing ==
    [][/\ last'.op \in ReadOnly => UNCHANGED store
       /\ last'.op = "get_edge_count"
             => last'.out = Len(get_edge_values_by_query(vertices, edges,
                                                         last'.arg))]_vars

\* get_edge_count has counted an edge twice for a query that lists its key
\* twice, on a store in which every index has an entry
C26_Witness ==
    /\ last.op = "get_edge_count"
    /\ last.out = 2
    /\ Cardinality(DOMAIN edges) = 1
    /\ DOMAIN accounts # {}
    /\ DOMAIN vertices # {}
    /\ DOMAIN global_metadata # {}
    /\ DOMAIN account_metadata # {}
    /\ DOMAIN vertex_metadata # {}
    /\ DOMAIN edge_metadata # {}

\* a transaction that waits for a guard, or is between its two guards, holds
\* none, and no transaction holds two guards
NoGuardWhileAsking ==
    \A t \in Threads :
        /\ at[t] \in {"read_wait", "write_wait", "between", "idle", "unlocked"}
              => t \notin readers \cup writers
        /\ ~(t \in readers /\ t \in writers)

\* a writer holds the lock alone
WriterAlone ==
    writers # {} => readers = {} /\ Cardinality(writers) = 1

\* C24: no operation asks for the write guard, or for any guard, while it
\* holds one; a writer never holds the lock together with a reader or another
\* writer; and, the lock serving its requests fairly, every operation a
\* transaction has started finishes.
C24_LockDiscipline ==
    /\ [](NoGuardWhileAsking /\ WriterAlone)
    /\ \A t \in Threads : (at[t] # "idle") ~> (at[t] = "idle")

\* delete_edges holds the write guard, after its read block, while create_edge
\* of another transaction, past its own read block, is blocked in write()
C24_Witness ==
    \E t \in Threads, u \in Threads :
        /\ at[t] = "write_held"
        /\ op_of[t] = "delete_edges"
        /\ at[u] = "write_wait"
        /\ op_of[u] = "create_edge"
        /\ waiting = <<u>>

====
